---- MODULE Spec2Model ----
(***************************************************************************)
(* Audit-logging pipeline of the API test harness:                         *)
(*   DatabaseService  (src/src/services/database.service.ts)               *)
(*   ApiLogRepository (src/src/repositories/api-log.repository.ts)         *)
(*   ApiClientService (src/src/services/api-client.service.ts)             *)
(* Every awaited operation of the source is a suspension point, so each    *)
(* handler is split into one action per await: the action that issues the  *)
(* awaited operation and the action that resumes after it.                 *)
(***************************************************************************)
EXTENDS Integers, Sequences, FiniteSets, TLC

\* ---- bounds ----
MaxPools == 2          \* pg Pool objects alive at the same time
MaxContainers == 2     \* PostgreSqlContainer instances running at the same time
MaxCalls == 2          \* client calls started in one behaviour
MaxTests == 2          \* tests run by one worker
MaxRequests == 2       \* rows written by direct calls of ApiLogRepository.logRequest
MaxResponses == 2      \* rows written by direct calls of ApiLogRepository.logResponse
MaxLogins == 2         \* login() calls made on one AuthService
MaxEnv == 2            \* environment variables of options that are set
MaxObjects == 1        \* User objects that were returned by a build of one UserBuilder
MaxElapsed == 2        \* milliseconds an awaited operation takes
MaxTimedCalls == 2     \* calls made by the client whose clock readings are followed
MaxRuns == 2           \* runs of DatabaseUtil.initializeDatabase per connection
MaxDirectCalls == 5    \* initialize()/close() calls made by the direct caller

\* ---- program constants ----
DefaultErrorStatus == 500

Procs == {1, 2}        \* concurrent callers of DatabaseService.initialize / close
Owner == 1             \* the single caller of initialize / close in the client specification
Slots == {1, 2}        \* ApiClientService instances in use at the same time
Statuses == {200, 404} \* status codes of HTTP responses of the remote API
ConfigDb == 0          \* the store named by the static configuration; container c holds store c

\* Errors are records {status, message}; status 0 stands for an error object
\* without a status property, message "" for one without a message.
NoError == [status |-> 0, message |-> "none"]
TransportErrors ==
    { [status |-> 0, message |-> "ECONNRESET"],
      [status |-> 503, message |-> ""] }
DbError == [status |-> 0, message |-> "query failed"]

VARIABLES
    \* DatabaseService singleton
    pool,                 \* this.pool: 0 = null, else the Pool object
    container,            \* this.container: 0 = null, else the started container
    isTestContainerMode,  \* this.isTestContainerMode
    mgr,                  \* per caller: position inside initialize()/close() and its locals
    \* environment of the DatabaseService
    livePools,            \* pools constructed and not yet ended
    liveContainers,       \* containers started and not yet stopped
    endingPools,          \* pools on which end() was called
    poolDb,               \* the store each pool connects to
    checkedOut,           \* connections acquired by initialize() and not released
    schemaReady,          \* stores in which api_test and its two tables exist
    \* relational store named by the configuration
    api_requests,         \* rows of api_test.api_requests
    api_responses,        \* rows of api_test.api_responses
    \* ApiClientService instances
    enableDbLogging,      \* this.enableDbLogging
    logRepository,        \* this.logRepository # null
    builtInitialized,     \* history: isInitialized() at construction
    call,                 \* per instance: the running call, its locals and its history
    callsStarted,         \* number of client calls started so far
    \* callers
    ret,                  \* the direct caller's latest initialize()/close() call and how it settled
    worker,               \* the Playwright worker: position in its fixtures and its history
    \* schema provisioning
    catalog,              \* information_schema of one store: how often each object was created
    prov,                 \* per connection: position inside DatabaseUtil.initializeDatabase
    \* ApiLogRepository used directly
    returned,             \* what the latest repository operation returned
    \* AuthService
    auth,                 \* this.token, the position inside login() and its history
    \* Config
    conf,                 \* process.env, the parsed properties file, Config.instance and its config
    \* UserBuilder
    builder,              \* this.user, the objects it and the callers refer to, what build returned
    \* one logging ApiClientService with the clock
    timed,                \* Date.now(), the clock readings of the running call, the rows it stored
    \* the APIRequestContext of one logging ApiClientService
    wire                  \* the verb method that is running and the HTTP calls issued so far

mgrVars == <<pool, container, isTestContainerMode, mgr,
             livePools, liveContainers, endingPools, poolDb, checkedOut, schemaReady>>
storeVars == <<api_requests, api_responses>>
clientVars == <<enableDbLogging, logRepository, builtInitialized, call, callsStarted>>
callerVars == <<ret, worker>>
provVars == <<catalog, prov>>
unitVars == <<auth, conf, builder, timed, wire>>
auxVars == <<callerVars, provVars, returned, unitVars>>
vars == <<mgrVars, storeVars, clientVars, auxVars>>

IdleMgr == [pc |-> "idle", pool |-> 0, cont |-> 0]

\* no initialize()/close() call made yet by the direct caller
NoCall ==
    [n |-> 0, op |-> "none", wasInitialized |-> FALSE, outcome |-> "none",
     acquired |-> 0, released |-> 0]

\* a worker process before its first test
NewWorker ==
    [pc |-> "idle", tests |-> 0, dbService |-> FALSE, wantClient |-> FALSE,
     threw |-> FALSE, initFailed |-> FALSE, starts |-> 0, stops |-> 0]

\* connections running the provisioning against the same store
Conns == {1, 2}
\* the objects DatabaseUtil.initializeDatabase provisions, in its order
Objects == <<"api_test", "api_requests", "api_responses">>
EmptyCatalog == [o \in 1..Len(Objects) |-> 0]
\* a connection that has not run the provisioning: step is the object being ensured,
\* issued the creation statements issued by the run, error what the run raised;
\* history: the objects the run's checks found absent, and whether all objects
\* existed when the run started
IdleProv == [pc |-> "idle", step |-> 0, issued |-> 0, runs |-> 0, error |-> "none",
             sawAbsent |-> {}, startedProvisioned |-> FALSE]

NothingReturned == [op |-> "none", arg |-> <<>>, rows |-> {}, threw |-> FALSE]

IdleCall ==
    [pc |-> "idle", id |-> 0, method |-> "GET", requestId |-> 0,
     http |-> [kind |-> "none", status |-> 0, err |-> NoError],
     result |-> [kind |-> "none", status |-> 0, err |-> NoError],
     pending |-> NoError,
     reqLogFailed |-> FALSE, respLogFailed |-> FALSE, errLogFailed |-> FALSE,
     trace |-> <<>>]

\* ------------------------------------------------------------------------
\* DatabaseService
\* ------------------------------------------------------------------------

\* isInitialized(): this.pool !== null
isInitialized == pool # 0

\* Object identities: a new object takes the least identity that no live object and
\* no reference still held by a caller of initialize()/close() uses.
Least(S) == CHOOSE i \in S : \A j \in S : i <= j
Fresh(used) == Least((1..(Cardinality(used) + 1)) \ used)

\* new Pool(...)
NewPoolId == Fresh(livePools \cup {pool} \cup {mgr[q].pool : q \in Procs})

\* new PostgreSqlContainer(...).start(): a container with an empty store of its own
NewContainerId == Fresh(liveContainers \cup {container} \cup {mgr[q].cont : q \in Procs})

\* poolDb with pool np connected to store db
Connected(np, db) ==
    [i \in DOMAIN poolDb \cup {np} |-> IF i = np THEN db ELSE poolDb[i]]

\* mutant: initialize() without the already-initialized guard
initializeUnguarded(p, useTestContainer, production) ==
    /\ mgr[p].pc = "idle"
    /\ Cardinality(livePools) < MaxPools
    /\ pool' = NewPoolId
    /\ livePools' = livePools \cup {NewPoolId}
    /\ poolDb' = Connected(NewPoolId, ConfigDb)
    /\ mgr' = [mgr EXCEPT ![p] = [IdleMgr EXCEPT !.pc = "probe", !.pool = NewPoolId]]
    /\ UNCHANGED <<container, isTestContainerMode, liveContainers, endingPools,
                   checkedOut, schemaReady>>
    /\ UNCHANGED <<storeVars, clientVars>>

\* initialize(useTestContainer), up to its first await.
\*   already initialized: log and return;
\*   container mode: await new PostgreSqlContainer(...).start();
\*   config mode: this.pool = new Pool(config) and await this.pool.query('SELECT NOW()').
initialize(p, useTestContainer, production) ==
    /\ mgr[p].pc = "idle"
    /\ IF pool # 0
       THEN UNCHANGED <<mgrVars>>
       ELSE IF useTestContainer /\ ~production
       THEN /\ mgr' = [mgr EXCEPT ![p] = [IdleMgr EXCEPT !.pc = "startContainer"]]
            /\ UNCHANGED <<pool, container, isTestContainerMode, livePools, liveContainers,
                           endingPools, poolDb, checkedOut, schemaReady>>
       ELSE /\ Cardinality(livePools) < MaxPools
            /\ pool' = NewPoolId
            /\ livePools' = livePools \cup {NewPoolId}
            /\ poolDb' = Connected(NewPoolId, ConfigDb)
            /\ mgr' = [mgr EXCEPT ![p] = [IdleMgr EXCEPT !.pc = "probe", !.pool = NewPoolId]]
            /\ UNCHANGED <<container, isTestContainerMode, liveContainers, endingPools,
                           checkedOut, schemaReady>>
    /\ UNCHANGED <<storeVars, clientVars>>

\* initializeTestContainer() after its await: the container failed to start (the
\* error propagates out of initialize()), or it started and the pool is built from it.
initializeTestContainer(p) ==
    /\ mgr[p].pc = "startContainer"
    /\ \E started \in BOOLEAN :
         IF started
         THEN /\ Cardinality(liveContainers) < MaxContainers
              /\ Cardinality(livePools) < MaxPools
              /\ container' = NewContainerId
              /\ liveContainers' = liveContainers \cup {NewContainerId}
              /\ schemaReady' = schemaReady \ {NewContainerId}
              /\ pool' = NewPoolId
              /\ livePools' = livePools \cup {NewPoolId}
              /\ poolDb' = Connected(NewPoolId, NewContainerId)
              /\ isTestContainerMode' = TRUE
              /\ mgr' = [mgr EXCEPT ![p] = [IdleMgr EXCEPT !.pc = "connect"]]
              /\ UNCHANGED <<endingPools, checkedOut>>
         ELSE /\ mgr' = [mgr EXCEPT ![p] = IdleMgr]
              /\ UNCHANGED <<pool, container, isTestContainerMode, livePools, liveContainers,
                             endingPools, poolDb, checkedOut, schemaReady>>
    /\ UNCHANGED <<storeVars, clientVars>>

\* initializeFromConfig() after its await: the liveness probe on the pool built by
\* this call succeeded, or it failed and the error is rethrown (this.pool stays set).
initializeFromConfig(p) ==
    /\ mgr[p].pc = "probe"
    /\ \E alive \in BOOLEAN :
         /\ alive => (mgr[p].pool \in livePools /\ mgr[p].pool \notin endingPools)
         /\ mgr' = [mgr EXCEPT ![p] = IF alive THEN [IdleMgr EXCEPT !.pc = "connect"] ELSE IdleMgr]
    /\ UNCHANGED <<pool, container, isTestContainerMode, livePools, liveContainers,
                   endingPools, poolDb, checkedOut, schemaReady>>
    /\ UNCHANGED <<storeVars, clientVars>>

\* const client = await this.pool!.connect(): this.pool is read when initialize()
\* resumes; null raises a TypeError, an ended or unreachable pool rejects.
connect(p) ==
    /\ mgr[p].pc = "connect"
    /\ \E acquired \in BOOLEAN :
         /\ acquired => (pool # 0 /\ pool \in livePools /\ pool \notin endingPools)
         /\ IF acquired
            THEN /\ checkedOut' = checkedOut + 1
                 /\ mgr' = [mgr EXCEPT ![p] = [IdleMgr EXCEPT !.pc = "provision", !.pool = pool]]
            ELSE /\ mgr' = [mgr EXCEPT ![p] = IdleMgr]
                 /\ UNCHANGED checkedOut
    /\ UNCHANGED <<pool, container, isTestContainerMode, livePools, liveContainers,
                   endingPools, poolDb, schemaReady>>
    /\ UNCHANGED <<storeVars, clientVars>>

\* mutant: the connection is released after the provisioning, without finally
initializeDatabaseSettledNoFinally(p, provisioned) ==
    /\ mgr[p].pc = "provision"
    /\ schemaReady' = IF provisioned THEN schemaReady \cup {poolDb[mgr[p].pool]} ELSE schemaReady
    /\ checkedOut' = IF provisioned THEN checkedOut - 1 ELSE checkedOut
    /\ mgr' = [mgr EXCEPT ![p] = IdleMgr]
    /\ UNCHANGED <<pool, container, isTestContainerMode, livePools, liveContainers,
                   endingPools, poolDb>>
    /\ UNCHANGED <<storeVars, clientVars>>

\* try { await DatabaseUtil.initializeDatabase(client) } finally { client.release() }
\* provisioned: the awaited provisioning fulfilled; otherwise its error leaves
\* initialize() after the connection is released.
initializeDatabaseSettled(p, provisioned) ==
    /\ mgr[p].pc = "provision"
    /\ schemaReady' = IF provisioned THEN schemaReady \cup {poolDb[mgr[p].pool]} ELSE schemaReady
    /\ checkedOut' = checkedOut - 1
    /\ mgr' = [mgr EXCEPT ![p] = IdleMgr]
    /\ UNCHANGED <<pool, container, isTestContainerMode, livePools, liveContainers,
                   endingPools, poolDb>>
    /\ UNCHANGED <<storeVars, clientVars>>

initializeDatabase(p) == \E provisioned \in BOOLEAN : initializeDatabaseSettled(p, provisioned)

\* The second half of close(): if (this.container) await this.container.stop()
StopContainerOrReturn(p) ==
    IF container # 0
    THEN mgr' = [mgr EXCEPT ![p] = [IdleMgr EXCEPT !.pc = "closeContainer", !.cont = container]]
    ELSE mgr' = [mgr EXCEPT ![p] = IdleMgr]

\* close(), up to its first await. pg rejects a second end() on the same pool.
close(p) ==
    /\ mgr[p].pc = "idle"
    /\ IF pool # 0
       THEN IF pool \in endingPools
            THEN UNCHANGED <<mgr, endingPools>>
            ELSE /\ endingPools' = endingPools \cup {pool}
                 /\ mgr' = [mgr EXCEPT ![p] = [IdleMgr EXCEPT !.pc = "closePool", !.pool = pool]]
       ELSE /\ StopContainerOrReturn(p)
            /\ UNCHANGED endingPools
    /\ UNCHANGED <<pool, container, isTestContainerMode, livePools, liveContainers,
                   poolDb, checkedOut, schemaReady>>
    /\ UNCHANGED <<storeVars, clientVars>>

\* mutant: close() forgets this.pool = null
poolEndedKeepsHandle(p) ==
    /\ mgr[p].pc = "closePool"
    /\ livePools' = livePools \ {mgr[p].pool}
    /\ endingPools' = endingPools \ {mgr[p].pool}
    /\ StopContainerOrReturn(p)
    /\ UNCHANGED <<pool, container, isTestContainerMode, liveContainers, poolDb, checkedOut,
                   schemaReady>>
    /\ UNCHANGED <<storeVars, clientVars>>

\* close() after await this.pool.end(): this.pool = null, then the container check.
poolEnded(p) ==
    /\ mgr[p].pc = "closePool"
    /\ livePools' = livePools \ {mgr[p].pool}
    /\ endingPools' = endingPools \ {mgr[p].pool}
    /\ pool' = 0
    /\ StopContainerOrReturn(p)
    /\ UNCHANGED <<container, isTestContainerMode, liveContainers, poolDb, checkedOut,
                   schemaReady>>
    /\ UNCHANGED <<storeVars, clientVars>>

\* close() after await this.container.stop(): this.container = null.
containerStopped(p) ==
    /\ mgr[p].pc = "closeContainer"
    /\ liveContainers' = liveContainers \ {mgr[p].cont}
    /\ container' = 0
    /\ mgr' = [mgr EXCEPT ![p] = IdleMgr]
    /\ UNCHANGED <<pool, isTestContainerMode, livePools, endingPools, poolDb, checkedOut,
                   schemaReady>>
    /\ UNCHANGED <<storeVars, clientVars>>

\* ------------------------------------------------------------------------
\* Relational store and ApiLogRepository
\* ------------------------------------------------------------------------

\* DatabaseService.query(text, params): getPool() throws when this.pool is null and
\* pg rejects a query on a pool on which end() was called; otherwise the statement
\* is sent to the store.
QueryIssued == pool # 0 /\ pool \notin endingPools

\* The store the statements of the repository reach: the one the manager's pool is
\* connected to. (A statement in flight when the pool built from the configuration is
\* ended was sent to the configured store.)
LogStore == IF pool # 0 THEN poolDb[pool] ELSE ConfigDb

\* The store executes an INSERT it received: the tables exist. (pool.end() waits for
\* the statements in flight, so the statement is not lost when the pool is closed
\* after it was issued; connectivity loss is the nondeterministic failure of the
\* write.)
StoreAccepts == LogStore \in schemaReady

\* id SERIAL PRIMARY KEY of the two tables
NextRequestId == Cardinality(api_requests) + 1
NextResponseId == Cardinality(api_responses) + 1

\* request_id INTEGER REFERENCES api_requests(id)
ForeignKeyHolds(requestId) == \E r \in api_requests : r.id = requestId

\* ApiLogRepository.logRequest: INSERT INTO api_test.api_requests ... RETURNING id.
\* A row keeps the generated id and, as history, the call that wrote it.
RequestRow(c) ==
    [id |-> NextRequestId, call |-> c.id]

\* ApiLogRepository.logResponse: INSERT INTO api_test.api_responses ... RETURNING id
ResponseRow(c, log) ==
    [id |-> NextResponseId, request_id |-> log.requestId, status_code |-> log.statusCode,
     body |-> log.body, call |-> c.id]

\* ------------------------------------------------------------------------
\* ApiClientService
\* ------------------------------------------------------------------------

Returned(status) == [kind |-> "returned", status |-> status, err |-> NoError]
Raised(e) == [kind |-> "raised", status |-> 0, err |-> e]
GotResponse(status) == [kind |-> "response", status |-> status, err |-> NoError]
GotError(e) == [kind |-> "error", status |-> 0, err |-> e]

HttpOutcomes == {GotResponse(st) : st \in Statuses} \cup {GotError(e) : e \in TransportErrors}

\* mutant: the constructor forgets to ask the connection manager
HasRepositoryUnchecked(enable) == enable

\* constructor: if (enableDbLogging && DatabaseService.getInstance().isInitialized())
HasRepository(enable) == enable /\ isInitialized

\* An instance is constructed before it makes its first call.
ApiClientService(s, enable) ==
    /\ call[s].pc = "idle"
    /\ enableDbLogging' = [enableDbLogging EXCEPT ![s] = enable]
    /\ logRepository' = [logRepository EXCEPT ![s] = HasRepository(enable)]
    /\ builtInitialized' = [builtInitialized EXCEPT ![s] = isInitialized]
    /\ call' = [call EXCEPT ![s] = IdleCall]
    /\ UNCHANGED <<mgrVars, storeVars, callsStarted>>

\* mutant: the status of the error is stored without the default
ErrorStatusCodeNoDefault(e) == e.status

\* statusCode: error.status || 500
ErrorStatusCode(e) == IF e.status # 0 THEN e.status ELSE DefaultErrorStatus

\* body: { error: error.message || 'Unknown error' }
ErrorBody(e) ==
    [kind |-> "error", text |-> IF e.message # "" THEN e.message ELSE "Unknown error"]

\* body read by response.json() / response.text()
ResponseBody(status) == [kind |-> "payload", text |-> "body"]

\* mutant: the request id is kept in a place shared by all calls (the last id issued)
ResponseLogSharedId(c) ==
    [requestId |-> Cardinality(api_requests), statusCode |-> c.http.status,
     body |-> ResponseBody(c.http.status)]

\* logResponse(): the ApiResponseLog built from the response
ResponseLog(c) ==
    [requestId |-> c.requestId, statusCode |-> c.http.status, body |-> ResponseBody(c.http.status)]

\* logErrorResponse(): the ApiResponseLog built from the error
ErrorLog(c, e) ==
    [requestId |-> c.requestId, statusCode |-> ErrorStatusCode(e), body |-> ErrorBody(e)]

\* mutant: the null check is inverted
HasRequestIdInverted(c) == c.requestId = 0

\* if (requestId !== null) guarding logResponse / logErrorResponse
HasRequestId(c) == c.requestId # 0

\* mutant: logErrorResponse lets the failure of its own write escape
RethrownLogFailure(e, logFailed) == IF logFailed THEN DbError ELSE e

\* catch (error) { ...logErrorResponse(requestId, error, startTime); throw error; }
\* logErrorResponse swallows the failure of its own write.
Rethrown(e, logFailed) == e

\* The call ends: the promise of the verb method settles.
Settle(c, result) ==
    [c EXCEPT !.pc = "done", !.result = result, !.method = IdleCall.method,
              !.pending = IdleCall.pending]

\* logErrorResponse(requestId, e, startTime) up to its await; a query that cannot be
\* issued rejects inside the try that swallows it.
EnterLogErrorResponse(s, c, e) ==
    LET c1 == [c EXCEPT !.trace = Append(@, "respWrite")]
    IN  IF ~logRepository[s]
        THEN Settle(c, Raised(e))
        ELSE IF QueryIssued
        THEN [c1 EXCEPT !.pc = "logErrorResponse", !.pending = e]
        ELSE Settle([c1 EXCEPT !.errLogFailed = TRUE], Raised(Rethrown(e, TRUE)))

\* the catch block of the verb method
Catch(s, c, e) ==
    IF HasRequestId(c) THEN EnterLogErrorResponse(s, c, e) ELSE Settle(c, Raised(e))

\* mutant: a statement after logResponse() throws inside the try, so the catch
\* block logs an error record for a call whose response is already logged
ResponseLoggedThenCaught(c) ==
    [c EXCEPT !.pc = "logErrorResponse", !.pending = DbError,
              !.trace = Append(@, "respWrite")]

\* logResponse() succeeded: the verb method returns the response
ResponseLogged(c) == Settle(c, Returned(c.http.status))

\* logResponse(requestId, response, startTime) up to its await
EnterLogResponse(s, c) ==
    LET c1 == [c EXCEPT !.trace = Append(@, "respWrite")]
    IN  IF ~logRepository[s]
        THEN Settle(c, Returned(c.http.status))
        ELSE IF QueryIssued
        THEN [c1 EXCEPT !.pc = "logResponse"]
        ELSE Catch(s, [c1 EXCEPT !.respLogFailed = TRUE], DbError)

\* this.apiContext.<verb>(url, ...) is issued
StartHttp(c) == [c EXCEPT !.pc = "http", !.trace = Append(@, "httpStart")]

\* mutant: the failure of logRequest is swallowed and the call goes on unlogged
RequestLogFailureSwallowed(c) == StartHttp([c EXCEPT !.reqLogFailed = TRUE])

\* logRequest rejected: the await is outside the try, the error leaves the method
RequestLogFailure(c) ==
    Settle([c EXCEPT !.reqLogFailed = TRUE], Raised(DbError))

\* mutant: the HTTP call is issued before the request is logged
verbHttpFirst(s, m) ==
    /\ call[s].pc \in {"idle", "done"}
    /\ callsStarted < MaxCalls
    /\ callsStarted' = callsStarted + 1
    /\ call' = [call EXCEPT ![s] =
                   StartHttp([IdleCall EXCEPT !.id = callsStarted + 1, !.method = m])]
    /\ UNCHANGED <<mgrVars, storeVars, enableDbLogging, logRepository, builtInitialized>>

\* get/post/put/patch/delete up to the first await
verb(s, m) ==
    /\ call[s].pc \in {"idle", "done"}
    /\ callsStarted < MaxCalls
    /\ callsStarted' = callsStarted + 1
    /\ LET c == [IdleCall EXCEPT !.id = callsStarted + 1, !.method = m]
       IN  call' = [call EXCEPT ![s] =
                      IF logRepository[s]
                      THEN IF QueryIssued
                           THEN [c EXCEPT !.pc = "logRequest"]
                           ELSE RequestLogFailure(c)
                      ELSE StartHttp(c)]
    /\ UNCHANGED <<mgrVars, storeVars, enableDbLogging, logRepository, builtInitialized>>

get(s) == verb(s, "GET")
post(s) == verb(s, "POST")
put(s) == verb(s, "PUT")
patch(s) == verb(s, "PATCH")
delete(s) == verb(s, "DELETE")

\* requestId = await this.logRepository.logRequest(request), then the HTTP call is issued
logRequest(s) ==
    /\ call[s].pc = "logRequest"
    /\ \E ok \in BOOLEAN :
         /\ ok => StoreAccepts
         /\ IF ok
            THEN /\ api_requests' = api_requests \cup {RequestRow(call[s])}
                 /\ call' = [call EXCEPT ![s] =
                               StartHttp([@ EXCEPT !.requestId = NextRequestId,
                                                   !.trace = Append(@, "reqLogged")])]
            ELSE /\ call' = [call EXCEPT ![s] = RequestLogFailure(@)]
                 /\ UNCHANGED api_requests
    /\ UNCHANGED <<mgrVars, api_responses, enableDbLogging, logRepository, builtInitialized,
                   callsStarted>>

\* the awaited HTTP call settles: a response, or a transport error caught by catch
http(s) ==
    /\ call[s].pc = "http"
    /\ \E o \in HttpOutcomes :
         LET c == [call[s] EXCEPT !.http = o, !.trace = Append(@, "httpEnd")]
         IN  call' = [call EXCEPT ![s] =
                        IF o.kind = "response"
                        THEN IF HasRequestId(c) THEN EnterLogResponse(s, c)
                                                ELSE Settle(c, Returned(o.status))
                        ELSE Catch(s, c, o.err)]
    /\ UNCHANGED <<mgrVars, storeVars, enableDbLogging, logRepository, builtInitialized,
                   callsStarted>>

\* await this.logRepository.logResponse(responseLog) inside logResponse() settles:
\* the row is inserted and the response returned, or the rejection reaches the catch
logResponse(s) ==
    /\ call[s].pc = "logResponse"
    /\ \E ok \in BOOLEAN :
         /\ ok => (StoreAccepts /\ ForeignKeyHolds(ResponseLog(call[s]).requestId))
         /\ IF ok
            THEN /\ api_responses' = api_responses \cup {ResponseRow(call[s], ResponseLog(call[s]))}
                 /\ call' = [call EXCEPT ![s] = ResponseLogged(@)]
            ELSE /\ call' = [call EXCEPT ![s] =
                               Catch(s, [@ EXCEPT !.respLogFailed = TRUE], DbError)]
                 /\ UNCHANGED api_responses
    /\ UNCHANGED <<mgrVars, api_requests, enableDbLogging, logRepository, builtInitialized,
                   callsStarted>>

\* await this.logRepository.logResponse(responseLog) inside logErrorResponse() settles;
\* its failure is swallowed and the caught error is thrown again
logErrorResponse(s) ==
    /\ call[s].pc = "logErrorResponse"
    /\ \E ok \in BOOLEAN :
         LET log == ErrorLog(call[s], call[s].pending)
         IN  /\ ok => (StoreAccepts /\ ForeignKeyHolds(log.requestId))
             /\ IF ok
                THEN /\ api_responses' = api_responses \cup {ResponseRow(call[s], log)}
                     /\ call' = [call EXCEPT ![s] =
                                   Settle(@, Raised(Rethrown(@.pending, FALSE)))]
                ELSE /\ call' = [call EXCEPT ![s] =
                                   Settle([@ EXCEPT !.errLogFailed = TRUE],
                                          Raised(Rethrown(@.pending, TRUE)))]
                     /\ UNCHANGED api_responses
    /\ UNCHANGED <<mgrVars, api_requests, enableDbLogging, logRepository, builtInitialized,
                   callsStarted>>

\* ------------------------------------------------------------------------
\* AuthService (src/unnamed/part_001)
\* ------------------------------------------------------------------------

NoToken == "null"              \* private token: string | null = null
NotSupplied == "undefined"     \* an optional argument that was left out
NoAccessToken == "undefined"   \* loginResponse.accessToken of a body without that field

\* Config.getInstance().getApiConfig(): the configured default credentials
ApiConfig == [username |-> "emilys", password |-> "emilyspass"]

\* arguments of login(username?, password?)
Usernames == {NotSupplied, "", "emilys", "invaliduser"}
Passwords == {NotSupplied, "", "emilyspass", "wrongpassword"}

\* x || d for a string: the default replaces undefined and the empty string
OrDefault(x, d) == IF x \in {NotSupplied, ""} THEN d ELSE x

\* const loginData = { username: username || config.username, ... }
LoginData(username, password) ==
    [username |-> OrDefault(username, ApiConfig.username),
     password |-> OrDefault(password, ApiConfig.password)]

\* The remote API: the account it knows, and the statuses it answers with
RemoteAccepts(data) == data = [username |-> "emilys", password |-> "emilyspass"]
LoginStatuses(data) == IF RemoteAccepts(data) THEN {200, 201, 500} ELSE {400, 401}
IssuedTokens == {"token1", "token2"}

\* mutant: only server errors count as failures
LoginOkBelow500(status) == status < 500

\* response.ok(): the status is in the range 200-299
LoginOk(status) == status >= 200 /\ status <= 299

\* accessToken of the JSON body: present in the body of a successful login only
AccessTokens(status) ==
    IF status >= 200 /\ status <= 299 THEN IssuedTokens ELSE {NoAccessToken}

NewAuth ==
    [pc |-> "idle", token |-> NoToken, logins |-> 0,
     username |-> NotSupplied, password |-> NotSupplied, data |-> LoginData(NotSupplied, NotSupplied),
     before |-> NoToken, status |-> 0, outcome |-> "none", error |-> 0]

\* login(username, password) up to await this.apiContext.post('/auth/login', ...)
login(username, password) ==
    /\ auth.pc = "idle"
    /\ auth.logins < MaxLogins
    /\ auth' = [auth EXCEPT !.pc = "post", !.logins = @ + 1,
                            !.username = username, !.password = password,
                            !.data = LoginData(username, password),
                            !.before = auth.token, !.status = 0,
                            !.outcome = "none", !.error = 0]

\* the POST settles with a response; error: the status in the message of the Error
\* (`Login failed with status ${response.status()}`)
loginResponse ==
    /\ auth.pc = "post"
    /\ \E status \in LoginStatuses(auth.data) : \E accessToken \in AccessTokens(status) :
         auth' = IF LoginOk(status)
                 THEN [auth EXCEPT !.pc = "idle", !.status = status, !.token = accessToken,
                                   !.outcome = "returned"]
                 ELSE [auth EXCEPT !.pc = "idle", !.status = status, !.outcome = "threw",
                                   !.error = status]

\* the POST rejects (transport error): the rejection leaves login()
loginRejected ==
    /\ auth.pc = "post"
    /\ auth' = [auth EXCEPT !.pc = "idle", !.outcome = "threw"]

\* setToken(token)
setToken(token) ==
    /\ auth.pc = "idle"
    /\ auth' = [auth EXCEPT !.token = token, !.outcome = "none"]

\* clearToken()
clearToken ==
    /\ auth.pc = "idle"
    /\ auth' = [auth EXCEPT !.token = NoToken, !.outcome = "none"]

\* ------------------------------------------------------------------------
\* Config (src/src/utils/global-setup.ts). Strings are sequences of characters.
\* ------------------------------------------------------------------------

Unset == <<"undefined">>       \* process.env.X / properties[key] that is not set
NaN == 0 - 1                   \* parseInt of a string that does not start with a digit

Options ==
    {"database.host", "database.port", "database.name", "database.user",
     "database.password", "api.baseUrl", "api.username", "api.password",
     "test.timeout", "test.retries"}
NumericOptions == {"database.port", "test.timeout", "test.retries"}

\* the key of the option in config/application.properties
PropertyKey(o) ==
    CASE o = "database.host" -> "db.host"
      [] o = "database.port" -> "db.port"
      [] o = "database.name" -> "db.name"
      [] o = "database.user" -> "db.user"
      [] o = "database.password" -> "db.password"
      [] o = "api.baseUrl" -> "api.base.url"
      [] OTHER -> o

\* the environment variable of the option; loadConfig reads none for the last four
\* options, whose names follow the pattern of the six it reads
EnvName(o) ==
    CASE o = "database.host" -> "DB_HOST"
      [] o = "database.port" -> "DB_PORT"
      [] o = "database.name" -> "DB_NAME"
      [] o = "database.user" -> "DB_USER"
      [] o = "database.password" -> "DB_PASSWORD"
      [] o = "api.baseUrl" -> "API_BASE_URL"
      [] o = "api.username" -> "API_USERNAME"
      [] o = "api.password" -> "API_PASSWORD"
      [] o = "test.timeout" -> "TEST_TIMEOUT"
      [] o = "test.retries" -> "TEST_RETRIES"
EnvNames == {EnvName(o) : o \in Options}
PropertyKeys == {PropertyKey(o) : o \in Options}

\* a || b for strings: b replaces undefined and the empty string
Or(a, b) == IF a = Unset \/ a = <<>> THEN b ELSE a

Digits == <<"0", "1", "2", "3", "4", "5", "6", "7", "8", "9">>
IsDigit(ch) == \E d \in 1..10 : Digits[d] = ch
DigitValue(ch) == (CHOOSE d \in 1..10 : Digits[d] = ch) - 1

\* the value of the leading digits of str, given the value acc of the digits read
RECURSIVE LeadingDigits(_, _)
LeadingDigits(str, acc) ==
    IF str = <<>> \/ ~IsDigit(Head(str)) THEN acc
    ELSE LeadingDigits(Tail(str), 10 * acc + DigitValue(Head(str)))

\* parseInt(str, 10) of a string without sign or leading blanks
parseInt(str) ==
    IF str = <<>> \/ ~IsDigit(Head(str)) THEN NaN ELSE LeadingDigits(str, 0)

\* loadConfig() after the properties file was read into properties
loadConfig(env, properties) ==
    [api |->
        [baseUrl |-> Or(env["API_BASE_URL"], Or(properties["api.base.url"],
                        <<"h", "t", "t", "p", "s", ":", "/", "/", "d", "u", "m", "m", "y",
                          "j", "s", "o", "n", ".", "c", "o", "m">>)),
         username |-> Or(properties["api.username"], <<"e", "m", "i", "l", "y", "s">>),
         password |-> Or(properties["api.password"],
                         <<"e", "m", "i", "l", "y", "s", "p", "a", "s", "s">>)],
     database |->
        [host |-> Or(env["DB_HOST"], Or(properties["db.host"],
                     <<"l", "o", "c", "a", "l", "h", "o", "s", "t">>)),
         port |-> parseInt(Or(env["DB_PORT"], Or(properties["db.port"],
                               <<"5", "4", "3", "2">>))),
         database |-> Or(env["DB_NAME"], Or(properties["db.name"],
                         <<"t", "e", "s", "t", "d", "b">>)),
         user |-> Or(env["DB_USER"], Or(properties["db.user"],
                     <<"t", "e", "s", "t", "u", "s", "e", "r">>)),
         password |-> Or(env["DB_PASSWORD"], Or(properties["db.password"],
                         <<"t", "e", "s", "t", "p", "a", "s", "s">>))],
     test |->
        [timeout |-> parseInt(Or(properties["test.timeout"], <<"3", "0", "0", "0", "0">>)),
         retries |-> parseInt(Or(properties["test.retries"], <<"2">>))]]

\* the field of the loaded configuration that holds the option
Loaded(config, o) ==
    CASE o = "database.host" -> config.database.host
      [] o = "database.port" -> config.database.port
      [] o = "database.name" -> config.database.database
      [] o = "database.user" -> config.database.user
      [] o = "database.password" -> config.database.password
      [] o = "api.baseUrl" -> config.api.baseUrl
      [] o = "api.username" -> config.api.username
      [] o = "api.password" -> config.api.password
      [] o = "test.timeout" -> config.test.timeout
      [] o = "test.retries" -> config.test.retries

\* values an environment variable and a file entry of an option are set to
EnvValue(o) == IF o \in NumericOptions THEN <<"7", "1">> ELSE <<"e", "n", "v">>
FileValue(o) == IF o \in NumericOptions THEN <<"0", "4", "2">> ELSE <<"f", "i", "l", "e">>

\* process.env with the variables of the options in S set
EnvWith(S) == [n \in EnvNames |-> IF \E o \in S : EnvName(o) = n
                                  THEN EnvValue(CHOOSE o \in S : EnvName(o) = n)
                                  ELSE Unset]
\* the properties file with the entries of the options in S
PropertiesWith(S) == [k \in PropertyKeys |-> IF \E o \in S : PropertyKey(o) = k
                                             THEN FileValue(CHOOSE o \in S : PropertyKey(o) = k)
                                             ELSE Unset]

\* private static instance: not yet constructed
NewConf(env, properties) ==
    [env |-> env, properties |-> properties, instance |-> FALSE,
     config |-> loadConfig(EnvWith({}), PropertiesWith({})), got |-> "none"]

\* Config.getInstance(): the first call constructs the instance, which loads
getInstance ==
    /\ conf' = IF conf.instance
               THEN [conf EXCEPT !.got = "instance"]
               ELSE [conf EXCEPT !.instance = TRUE, !.got = "instance",
                                 !.config = loadConfig(conf.env, conf.properties)]

\* getConfig() / getApiConfig() / getDatabaseConfig() / getTestConfig() on the instance
getConfig(part) ==
    /\ conf.instance
    /\ conf' = [conf EXCEPT !.got = part]

\* ------------------------------------------------------------------------
\* UserBuilder (src/src/builders/user.builder.ts). Objects live in a heap and are
\* named by references; a field that is not set holds NotSet.
\* ------------------------------------------------------------------------

NotSet == "undefined"
RequiredFields == {"firstName", "lastName", "email", "username", "age", "phone"}

\* the value a with*() call of the tests gives the field
FieldValue(f) ==
    CASE f = "firstName" -> "John"
      [] f = "lastName" -> "Doe"
      [] f = "email" -> "john@example.com"
      [] f = "username" -> "johndoe"
      [] f = "age" -> "30"
      [] f = "phone" -> "+1-555-0000"

\* {}
EmptyUser == [f \in RequiredFields |-> NotSet]

\* constructor: this.user = {}
NewBuilder ==
    [user |-> 1, heap |-> <<EmptyUser>>, built |-> {},
     op |-> "none", result |-> 0, threw |-> FALSE]

\* withFirstName / withLastName / withEmail / withUsername / withAge / withPhone:
\* this.user.<field> = value; return this
with(f, value) ==
    /\ builder' = [builder EXCEPT !.heap[builder.user][f] = value,
                                  !.op = "with", !.result = 0, !.threw = FALSE]

\* buildMinimal() throws when a required field is missing
Missing(user) == \E f \in RequiredFields : user[f] = NotSet

\* return this.user as User
Built(b) == [b EXCEPT !.built = @ \cup {b.user}, !.result = b.user]

\* build()
build ==
    /\ builder' = Built([builder EXCEPT !.op = "build", !.threw = FALSE])

\* buildMinimal()
buildMinimal ==
    /\ builder' = IF Missing(builder.heap[builder.user])
                  THEN [builder EXCEPT !.op = "buildMinimal", !.result = 0, !.threw = TRUE]
                  ELSE Built([builder EXCEPT !.op = "buildMinimal", !.threw = FALSE])

\* reset(): this.user = {}. The object it replaces stays in the heap when a build
\* returned it; otherwise nothing refers to it and the new object takes its place.
reset ==
    /\ builder.user \in builder.built => Len(builder.heap) < MaxObjects
    /\ builder' = IF builder.user \in builder.built
                  THEN [builder EXCEPT !.heap = Append(@, EmptyUser),
                                       !.user = Len(builder.heap) + 1,
                                       !.op = "reset", !.result = 0, !.threw = FALSE]
                  ELSE [builder EXCEPT !.heap[builder.user] = EmptyUser,
                                       !.op = "reset", !.result = 0, !.threw = FALSE]

\* ------------------------------------------------------------------------
\* Clock readings of a call of a logging ApiClientService
\* (src/src/services/api-client.service.ts). Every awaited operation takes some
\* milliseconds; Date.now() is counted from the start of the running call.
\* ------------------------------------------------------------------------

Durations == 0..MaxElapsed

NewTimed ==
    [pc |-> "idle", calls |-> 0, now |-> 0, startTime |-> 0, httpStart |-> 0,
     httpEnd |-> 0, responseTime |-> 0, records |-> {}]

\* get/post/put/patch/delete up to the first await: const startTime = Date.now(),
\* then await this.logRepository.logRequest(request)
TimedVerb ==
    /\ timed.pc = "idle"
    /\ timed.calls < MaxTimedCalls
    /\ timed' = [timed EXCEPT !.pc = "logRequest", !.calls = @ + 1, !.now = 0,
                              !.startTime = 0, !.httpStart = 0, !.httpEnd = 0,
                              !.responseTime = 0]

\* logRequest settles after d ms: the HTTP call is issued, or the error leaves the call
TimedLogRequest(d, ok) ==
    /\ timed.pc = "logRequest"
    /\ timed' = IF ok
                THEN [timed EXCEPT !.pc = "http", !.now = @ + d, !.httpStart = timed.now + d]
                ELSE [timed EXCEPT !.pc = "idle", !.now = @ + d]

\* const responseTime = Date.now() - startTime
ResponseTime(t) == t.now - t.startTime

\* the HTTP call settles after d ms; logResponse() or logErrorResponse() reads the clock
TimedHttp(d, responded) ==
    /\ timed.pc = "http"
    /\ LET t == [timed EXCEPT !.now = @ + d, !.httpEnd = timed.now + d]
       IN  timed' = [t EXCEPT !.pc = IF responded THEN "json" ELSE "logErrorResponse",
                              !.responseTime = ResponseTime(t)]

\* await response.json() / response.text() settles after d ms
TimedJson(d) ==
    /\ timed.pc = "json"
    /\ timed' = [timed EXCEPT !.pc = "logResponse", !.now = @ + d]

\* the row of the response: response_time_ms; history: the time the HTTP call took
TimedRow(t, kind) ==
    [id |-> Cardinality(t.records) + 1, kind |-> kind, response_time_ms |-> t.responseTime,
     elapsed |-> t.httpEnd - t.httpStart]

\* logRepository.logResponse inside logResponse() settles after d ms: the row is
\* stored, or the rejection reaches the catch and logErrorResponse() reads the clock
TimedLogResponse(d, ok) ==
    /\ timed.pc = "logResponse"
    /\ LET t == [timed EXCEPT !.now = @ + d]
       IN  timed' = IF ok
                    THEN [t EXCEPT !.pc = "idle", !.records = @ \cup {TimedRow(t, "response")}]
                    ELSE [t EXCEPT !.pc = "logErrorResponse", !.responseTime = ResponseTime(t)]

\* logRepository.logResponse inside logErrorResponse() settles after d ms
TimedLogErrorResponse(d, ok) ==
    /\ timed.pc = "logErrorResponse"
    /\ LET t == [timed EXCEPT !.now = @ + d]
       IN  timed' = IF ok
                    THEN [t EXCEPT !.pc = "idle", !.records = @ \cup {TimedRow(t, "error")}]
                    ELSE [t EXCEPT !.pc = "idle"]

\* params?: Record<string, string> that was left out
NoParams == [given |-> FALSE, pairs |-> <<>>]

\* a client that has made no call
NewWire ==
    [pc |-> "idle", verb |-> "get", endpoint |-> <<>>, params |-> NoParams, url |-> <<>>,
     sent |-> {}]

\* An AuthService, Config or UserBuilder that the behaviour does not construct,
\* and a client whose clock readings or URLs the behaviour does not follow
NotConstructed == "none"

Units(a, c, b, t, w) ==
    /\ auth = a
    /\ conf = c
    /\ builder = b
    /\ timed = t
    /\ wire = w

InitUnits ==
    Units(NotConstructed, NotConstructed, NotConstructed, NotConstructed, NotConstructed)

\* ------------------------------------------------------------------------
\* Initial state: the singleton as constructed, no client call made
\* ------------------------------------------------------------------------
InitProgram ==
    /\ pool = 0
    /\ container = 0
    /\ isTestContainerMode = FALSE
    /\ mgr = [p \in Procs |-> IdleMgr]
    /\ livePools = {}
    /\ liveContainers = {}
    /\ endingPools = {}
    /\ poolDb = <<>>
    /\ checkedOut = 0
    /\ schemaReady = {}
    /\ api_requests = {}
    /\ api_responses = {}
    /\ enableDbLogging = [s \in Slots |-> FALSE]
    /\ logRepository = [s \in Slots |-> FALSE]
    /\ builtInitialized = [s \in Slots |-> FALSE]
    /\ call = [s \in Slots |-> IdleCall]
    /\ callsStarted = 0
    /\ ret = NoCall
    /\ worker = NewWorker
    /\ catalog = EmptyCatalog
    /\ prov = [k \in Conns |-> IdleProv]
    /\ returned = NothingReturned

Init == InitProgram /\ InitUnits

\* Connection manager alone: two callers of initialize()/close() in any interleaving.
NextDb ==
    \E p \in Procs :
        \/ \E useTestContainer \in BOOLEAN, production \in BOOLEAN :
               initialize(p, useTestContainer, production) /\ UNCHANGED auxVars
        \/ initializeTestContainer(p) /\ UNCHANGED auxVars
        \/ initializeFromConfig(p) /\ UNCHANGED auxVars
        \/ connect(p) /\ UNCHANGED auxVars
        \/ initializeDatabase(p) /\ UNCHANGED auxVars
        \/ close(p) /\ UNCHANGED auxVars
        \/ poolEnded(p) /\ UNCHANGED auxVars
        \/ containerStopped(p) /\ UNCHANGED auxVars

SpecDb == Init /\ [][NextDb]_vars

\* Clients against the store named by the configuration: one caller drives
\* initialize()/close() (the pool is built from the configuration, so every pool
\* reaches the same store), instrumented clients are constructed and call at any time.
Next ==
    \/ \E useTestContainer \in BOOLEAN, production \in BOOLEAN :
           /\ useTestContainer => production
           /\ initialize(Owner, useTestContainer, production)
           /\ UNCHANGED auxVars
    \/ initializeFromConfig(Owner) /\ UNCHANGED auxVars
    \/ connect(Owner) /\ UNCHANGED auxVars
    \/ initializeDatabase(Owner) /\ UNCHANGED auxVars
    \/ close(Owner) /\ UNCHANGED auxVars
    \/ poolEnded(Owner) /\ UNCHANGED auxVars
    \/ \E s \in Slots :
           \/ \E enable \in BOOLEAN : ApiClientService(s, enable) /\ UNCHANGED auxVars
           \/ get(s) /\ UNCHANGED auxVars
           \/ post(s) /\ UNCHANGED auxVars
           \/ put(s) /\ UNCHANGED auxVars
           \/ patch(s) /\ UNCHANGED auxVars
           \/ delete(s) /\ UNCHANGED auxVars
           \/ logRequest(s) /\ UNCHANGED auxVars
           \/ http(s) /\ UNCHANGED auxVars
           \/ logResponse(s) /\ UNCHANGED auxVars
           \/ logErrorResponse(s) /\ UNCHANGED auxVars

Spec == Init /\ [][Next]_vars

\* ------------------------------------------------------------------------
\* A direct caller of the singleton: initialize() and close() called one after
\* another, each awaited, in either mode; ret records the latest call.
\* ------------------------------------------------------------------------

\* the call just made: its number, whether the manager was initialized when it was
\* made, and how many connections it has acquired and released so far
Called(op) ==
    [n |-> ret.n + 1, op |-> op, wasInitialized |-> isInitialized, outcome |-> "running",
     acquired |-> 0, released |-> 0]

\* the promise of the running call after a step of caller p: still pending while p is
\* inside the method; settled when p has left it, rejected if the step threw
Await(p, threw) ==
    IF mgr'[p].pc # "idle" THEN "running" ELSE IF threw THEN "threw" ELSE "returned"

NextMgr ==
    \/ \E useTestContainer \in BOOLEAN, production \in BOOLEAN :
           /\ ret.n < MaxDirectCalls
           /\ initialize(Owner, useTestContainer, production)
           /\ ret' = [Called("initialize") EXCEPT !.outcome = Await(Owner, FALSE)]
           /\ UNCHANGED <<worker, provVars, returned, unitVars>>
    \/ /\ initializeTestContainer(Owner)
       /\ ret' = [ret EXCEPT !.outcome = Await(Owner, TRUE)]
       /\ UNCHANGED <<worker, provVars, returned, unitVars>>
    \/ /\ initializeFromConfig(Owner)
       /\ ret' = [ret EXCEPT !.outcome = Await(Owner, TRUE)]
       /\ UNCHANGED <<worker, provVars, returned, unitVars>>
    \/ /\ connect(Owner)
       /\ ret' = [ret EXCEPT !.outcome = Await(Owner, TRUE),
                             !.acquired = @ + (checkedOut' - checkedOut)]
       /\ UNCHANGED <<worker, provVars, returned, unitVars>>
    \/ \E provisioned \in BOOLEAN :
           /\ initializeDatabaseSettled(Owner, provisioned)
           /\ ret' = [ret EXCEPT !.outcome = Await(Owner, ~provisioned),
                                 !.released = @ + (checkedOut - checkedOut')]
           /\ UNCHANGED <<worker, provVars, returned, unitVars>>
    \/ /\ ret.n < MaxDirectCalls
       /\ close(Owner)
       /\ ret' = [Called("close") EXCEPT
                     !.outcome = Await(Owner, pool # 0 /\ pool \in endingPools)]
       /\ UNCHANGED <<worker, provVars, returned, unitVars>>
    \/ /\ poolEnded(Owner)
       /\ ret' = [ret EXCEPT !.outcome = Await(Owner, FALSE)]
       /\ UNCHANGED <<worker, provVars, returned, unitVars>>
    \/ /\ containerStopped(Owner)
       /\ ret' = [ret EXCEPT !.outcome = Await(Owner, FALSE)]
       /\ UNCHANGED <<worker, provVars, returned, unitVars>>

SpecMgr == Init /\ [][NextMgr]_vars

\* ------------------------------------------------------------------------
\* DatabaseUtil (src/src/utils/database.util.ts): schema provisioning run by
\* connections to the same store. Every statement is one awaited query; a query
\* may also fail because the connection is lost.
\* ------------------------------------------------------------------------

\* mutant: the result of the existence check is not used
ExistsNever(cat, o) == FALSE

\* SELECT EXISTS(SELECT 1 FROM information_schema.schemata / tables WHERE ...)
ExistsInCatalog(cat, o) == cat[o] > 0

\* the objects a creation statement refers to: a table needs its schema, and
\* api_responses references api_requests
Prerequisites(o) == 1..(o - 1)

\* mutant: CREATE SCHEMA / CREATE TABLE without IF NOT EXISTS
CreateUnguarded(cat, o) ==
    IF \E q \in Prerequisites(o) : cat[q] = 0
    THEN [catalog |-> cat, error |-> "missing"]
    ELSE IF cat[o] > 0
    THEN [catalog |-> cat, error |-> "duplicate"]
    ELSE [catalog |-> [cat EXCEPT ![o] = @ + 1], error |-> "none"]

\* CREATE SCHEMA IF NOT EXISTS / CREATE TABLE IF NOT EXISTS executed by the store
CreateIfNotExists(cat, o) ==
    IF \E q \in Prerequisites(o) : cat[q] = 0
    THEN [catalog |-> cat, error |-> "missing"]
    ELSE IF cat[o] > 0
    THEN [catalog |-> cat, error |-> "none"]
    ELSE [catalog |-> [cat EXCEPT ![o] = @ + 1], error |-> "none"]

\* mutant: the error is kept and the run goes on with the next object
FailedSwallowed(pr, error) ==
    IF pr.step = Len(Objects)
    THEN [pr EXCEPT !.pc = "done", !.error = error]
    ELSE [pr EXCEPT !.pc = "check", !.step = @ + 1, !.error = error]

\* the run raised: the error leaves initializeDatabase, the later steps are not run
Failed(pr, error) == [pr EXCEPT !.pc = "done", !.error = error]

\* the object is ensured: initializeDatabase goes on with the next one, or returns
Advance(pr) ==
    IF pr.step = Len(Objects)
    THEN [pr EXCEPT !.pc = "done"]
    ELSE [pr EXCEPT !.pc = "check", !.step = @ + 1]

\* ensureSchema / ensureTable after the awaited existence check
Ensured(pr, exists, ok) ==
    IF ~ok THEN Failed(pr, "connection")
    ELSE IF exists THEN Advance(pr)
    ELSE [pr EXCEPT !.pc = "create", !.issued = @ + 1, !.sawAbsent = @ \cup {pr.step}]

\* ensureSchema / ensureTable after the awaited creation statement
Created(pr, error, ok) ==
    IF ~ok THEN Failed(pr, "connection")
    ELSE IF error # "none" THEN Failed(pr, error)
    ELSE Advance(pr)

\* DatabaseUtil.initializeDatabase(client) up to its first await: ensureSchema
\* issues its existence check
DatabaseUtil_initializeDatabase(k) ==
    /\ prov[k].pc \in {"idle", "done"}
    /\ prov[k].runs < MaxRuns
    /\ prov' = [prov EXCEPT ![k] =
                   [IdleProv EXCEPT !.pc = "check", !.step = 1, !.runs = prov[k].runs + 1,
                                    !.startedProvisioned =
                                        \A o \in DOMAIN catalog : catalog[o] > 0]]
    /\ UNCHANGED catalog

\* ensureSchema(client, 'api_test'): the existence check settles
ensureSchema(k) ==
    /\ prov[k].pc = "check"
    /\ prov[k].step = 1
    /\ \E ok \in BOOLEAN :
         prov' = [prov EXCEPT ![k] = Ensured(@, ExistsInCatalog(catalog, @.step), ok)]
    /\ UNCHANGED catalog

\* ensureTable(client, 'api_test', table, createTableQuery): the existence check settles
ensureTable(k) ==
    /\ prov[k].pc = "check"
    /\ prov[k].step > 1
    /\ \E ok \in BOOLEAN :
         prov' = [prov EXCEPT ![k] = Ensured(@, ExistsInCatalog(catalog, @.step), ok)]
    /\ UNCHANGED catalog

\* the awaited creation statement of ensureSchema / ensureTable settles
createStatement(k) ==
    /\ prov[k].pc = "create"
    /\ \E ok \in BOOLEAN :
         LET r == CreateIfNotExists(catalog, prov[k].step)
         IN  /\ catalog' = IF ok THEN r.catalog ELSE catalog
             /\ prov' = [prov EXCEPT ![k] = Created(@, r.error, ok)]

NextProvision ==
    \E k \in Conns :
        \/ /\ DatabaseUtil_initializeDatabase(k)
           /\ UNCHANGED <<mgrVars, storeVars, clientVars, callerVars, returned, unitVars>>
        \/ /\ ensureSchema(k)
           /\ UNCHANGED <<mgrVars, storeVars, clientVars, callerVars, returned, unitVars>>
        \/ /\ ensureTable(k)
           /\ UNCHANGED <<mgrVars, storeVars, clientVars, callerVars, returned, unitVars>>
        \/ /\ createStatement(k)
           /\ UNCHANGED <<mgrVars, storeVars, clientVars, callerVars, returned, unitVars>>

SpecProvision == Init /\ [][NextProvision]_vars

\* ------------------------------------------------------------------------
\* ApiLogRepository (src/src/repositories/api-log.repository.ts) called directly
\* on an initialized manager. Strings that are searched are sequences of
\* characters; a result set is the set of its rows.
\* ------------------------------------------------------------------------

\* JavaScript values: t is the type, v the content of a string and the JSON text of
\* any other value
Undefined == [t |-> "undefined", v |-> ""]
Null == [t |-> "null", v |-> "null"]
JsonValues ==
    { Null,
      [t |-> "bool", v |-> "false"], [t |-> "bool", v |-> "true"],
      [t |-> "num", v |-> "0"], [t |-> "num", v |-> "1"],
      [t |-> "str", v |-> ""], [t |-> "str", v |-> "a"],
      [t |-> "obj", v |-> "{}"], [t |-> "obj", v |-> "{\"a\":1}"] }

\* the condition of x ? ... : null
Truthy(x) ==
    ~ \/ x.t \in {"undefined", "null"}
      \/ x.t = "bool" /\ x.v = "false"
      \/ x.t = "num" /\ x.v = "0"
      \/ x.t = "str" /\ x.v = ""

\* JSON.stringify(x)
JSONstringify(x) == IF x.t = "str" THEN "\"" \o x.v \o "\"" ELSE x.v

\* the value the driver returns for a JSONB column holding the text
JSONparse(text) == CHOOSE x \in JsonValues : JSONstringify(x) = text

\* headers / body column as read back: x ? JSON.stringify(x) : null, stored as JSONB
JsonbColumn(x) == IF Truthy(x) THEN JSONparse(JSONstringify(x)) ELSE Null

\* the row inserted by logRequest; history: the values the caller passed
ApiRequestRow(request) ==
    [id |-> NextRequestId, endpoint |-> request.endpoint, method |-> request.method,
     headers |-> JsonbColumn(request.headers), body |-> JsonbColumn(request.body),
     sent |-> [headers |-> request.headers, body |-> request.body]]

\* the row inserted by logResponse
ApiResponseRow(response) ==
    [id |-> NextResponseId, request_id |-> response.requestId,
     status_code |-> response.statusCode]

\* mutant: the row replaces the response already stored for the request
UpsertResponse(table, row) ==
    {r \in table : r.request_id # row.request_id} \cup {row}

\* INSERT INTO api_test.api_responses
InsertResponse(table, row) == table \cup {row}

\* what an operation returns: its rows, or the error of the store
Result(op, arg, rows, ok) ==
    [op |-> op, arg |-> arg, rows |-> IF ok THEN rows ELSE {}, threw |-> ~ok]

\* a SELECT of the repository: the rows, or the error of the store; no table changes
Select(op, arg, rows) ==
    /\ \E ok \in BOOLEAN :
         /\ ok => (QueryIssued /\ StoreAccepts)
         /\ returned' = Result(op, arg, rows, ok)
    /\ UNCHANGED storeVars

ReadOps ==
    {"getAllRequests", "getAllResponses", "getRequestWithResponse",
     "getRequestsByEndpoint", "getRequestsByMethod", "getFailedResponses"}

ApiLogRepository_logRequest(request) ==
    /\ Cardinality(api_requests) < MaxRequests
    /\ \E ok \in BOOLEAN :
         /\ ok => (QueryIssued /\ StoreAccepts)
         /\ api_requests' = IF ok THEN api_requests \cup {ApiRequestRow(request)}
                                  ELSE api_requests
         /\ returned' = Result("logRequest", <<>>, {}, ok)
    /\ UNCHANGED api_responses

ApiLogRepository_logResponse(response) ==
    /\ Cardinality(api_responses) < MaxResponses
    /\ \E ok \in BOOLEAN :
         /\ ok => (QueryIssued /\ StoreAccepts /\ ForeignKeyHolds(response.requestId))
         /\ api_responses' = IF ok THEN InsertResponse(api_responses, ApiResponseRow(response))
                                   ELSE api_responses
         /\ returned' = Result("logResponse", <<>>, {}, ok)
    /\ UNCHANGED api_requests

\* SELECT * FROM api_test.api_requests
getAllRequests == Select("getAllRequests", <<>>, api_requests)

\* SELECT * FROM api_test.api_responses
getAllResponses == Select("getAllResponses", <<>>, api_responses)

\* r LEFT JOIN res ON r.id = res.request_id
LeftJoin(q) ==
    IF \E r \in api_responses : r.request_id = q.id
    THEN {[request |-> q.id, response |-> r.id] : r \in {x \in api_responses : x.request_id = q.id}}
    ELSE {[request |-> q.id, response |-> 0]}

\* ... WHERE r.id = $1; return result.rows[0]
getRequestWithResponse(requestId) ==
    LET rows == UNION {LeftJoin(q) : q \in {x \in api_requests : x.id = requestId}}
    IN  \/ rows = {} /\ Select("getRequestWithResponse", <<requestId>>, {})
        \/ \E row \in rows : Select("getRequestWithResponse", <<requestId>>, {row})

\* `%${endpoint}%`
EndpointPattern(endpoint) == <<"%">> \o endpoint \o <<"%">>

\* string LIKE pattern: % matches any run of characters, _ any one character, a
\* backslash makes the next character literal; everything else matches itself
RECURSIVE Like(_, _)
Like(str, pat) ==
    IF pat = <<>> THEN str = <<>>
    ELSE IF Head(pat) = "%"
    THEN Like(str, Tail(pat)) \/ (str # <<>> /\ Like(Tail(str), pat))
    ELSE IF Head(pat) = "_"
    THEN str # <<>> /\ Like(Tail(str), Tail(pat))
    ELSE IF Head(pat) = "\\" /\ Len(pat) > 1
    THEN str # <<>> /\ Head(str) = pat[2] /\ Like(Tail(str), Tail(Tail(pat)))
    ELSE str # <<>> /\ Head(str) = Head(pat) /\ Like(Tail(str), Tail(pat))

\* SELECT * FROM api_test.api_requests WHERE endpoint LIKE $1
getRequestsByEndpoint(endpoint) ==
    Select("getRequestsByEndpoint", endpoint,
           {q \in api_requests : Like(q.endpoint, EndpointPattern(endpoint))})

\* SELECT * FROM api_test.api_requests WHERE method = $1
getRequestsByMethod(method) ==
    Select("getRequestsByMethod", <<method>>, {q \in api_requests : q.method = method})

\* mutant: the bound is exclusive
FailedStatusExclusive(statusCode) == statusCode > 400

\* WHERE res.status_code >= 400
FailedStatus(statusCode) == statusCode >= 400

\* SELECT r.endpoint, r.method, res.* FROM api_responses res
\* JOIN api_requests r ON r.id = res.request_id WHERE res.status_code >= 400
getFailedResponses ==
    Select("getFailedResponses", <<>>,
           {[id |-> res.id, request_id |-> res.request_id, status_code |-> res.status_code,
             endpoint |-> q.endpoint, method |-> q.method] :
                <<res, q>> \in {x \in api_responses \X api_requests :
                                    x[2].id = x[1].request_id /\ FailedStatus(x[1].status_code)}})

\* The manager after initialize(false) returned: a pool on the configured store,
\* the schema and both tables provisioned, the tables empty.
InitProvisioned ==
    /\ pool = 1
    /\ container = 0
    /\ isTestContainerMode = FALSE
    /\ mgr = [p \in Procs |-> IdleMgr]
    /\ livePools = {1}
    /\ liveContainers = {}
    /\ endingPools = {}
    /\ poolDb = <<ConfigDb>>
    /\ checkedOut = 0
    /\ schemaReady = {ConfigDb}
    /\ api_requests = {}
    /\ api_responses = {}
    /\ enableDbLogging = [s \in Slots |-> FALSE]
    /\ logRepository = [s \in Slots |-> FALSE]
    /\ builtInitialized = [s \in Slots |-> FALSE]
    /\ call = [s \in Slots |-> IdleCall]
    /\ callsStarted = 0
    /\ ret = NoCall
    /\ worker = NewWorker
    /\ catalog = EmptyCatalog
    /\ prov = [k \in Conns |-> IdleProv]
    /\ returned = NothingReturned

InitRepo == InitProvisioned /\ InitUnits

\* endpoints, methods and status codes of the calls that are logged
Users == <<"/", "u", "s", "e", "r", "s">>
RepoRequests ==
    {[endpoint |-> Users, method |-> m, headers |-> Undefined, body |-> Undefined] :
        m \in {"GET", "POST"}}
RepoStatuses == {200, 399, 400, 500}
RepoResponses ==
    {[requestId |-> i, statusCode |-> st] : i \in 1..MaxRequests, st \in RepoStatuses}

NextRepo ==
    \/ \E request \in RepoRequests :
           /\ ApiLogRepository_logRequest(request)
           /\ UNCHANGED <<mgrVars, clientVars, callerVars, provVars, unitVars>>
    \/ \E response \in RepoResponses :
           /\ ApiLogRepository_logResponse(response)
           /\ UNCHANGED <<mgrVars, clientVars, callerVars, provVars, unitVars>>
    \/ getAllRequests /\ UNCHANGED <<mgrVars, clientVars, callerVars, provVars, unitVars>>
    \/ getAllResponses /\ UNCHANGED <<mgrVars, clientVars, callerVars, provVars, unitVars>>
    \/ \E requestId \in 1..MaxRequests :
           /\ getRequestWithResponse(requestId)
           /\ UNCHANGED <<mgrVars, clientVars, callerVars, provVars, unitVars>>
    \/ getRequestsByEndpoint(Users) /\ UNCHANGED <<mgrVars, clientVars, callerVars, provVars, unitVars>>
    \/ \E method \in {"GET", "POST"} :
           /\ getRequestsByMethod(method)
           /\ UNCHANGED <<mgrVars, clientVars, callerVars, provVars, unitVars>>
    \/ getFailedResponses /\ UNCHANGED <<mgrVars, clientVars, callerVars, provVars, unitVars>>

SpecRepo == InitRepo /\ [][NextRepo]_vars

\* endpoints that are logged and strings that are searched for
LikeEndpoints ==
    { <<"u", "s">>, <<"U", "s">>, <<"u", "_", "s">>, <<"u", "x", "s">>,
      <<"5", "%">>, <<"s", "\\">> }
LikePatterns ==
    { <<>>, <<"u", "s">>, <<"s">>, <<"U">>, <<"x", "s">>, <<"_">>, <<"u", "_", "s">>,
      <<"%">>, <<"u", "%", "s">>, <<"\\">> }
LikeRequests ==
    {[endpoint |-> e, method |-> "GET", headers |-> Undefined, body |-> Undefined] :
        e \in LikeEndpoints}

\* p occurs in str, character for character
Contains(str, p) ==
    \E i \in 1..(Len(str) - Len(p) + 1) : SubSeq(str, i, i + Len(p) - 1) = p

NextLike ==
    \/ \E request \in LikeRequests :
           /\ ApiLogRepository_logRequest(request)
           /\ UNCHANGED <<mgrVars, clientVars, callerVars, provVars, unitVars>>
    \/ \E endpoint \in LikePatterns :
           /\ getRequestsByEndpoint(endpoint)
           /\ UNCHANGED <<mgrVars, clientVars, callerVars, provVars, unitVars>>

SpecLike == InitRepo /\ [][NextLike]_vars

\* requests whose headers and body are logged: headers?: Record<string, string>,
\* body?: any
JsonRequests ==
    {[endpoint |-> Users, method |-> "POST", headers |-> h, body |-> b] :
        h \in {Undefined, [t |-> "obj", v |-> "{}"]}, b \in JsonValues \cup {Undefined}}

NextJson ==
    \/ \E request \in JsonRequests :
           /\ ApiLogRepository_logRequest(request)
           /\ UNCHANGED <<mgrVars, clientVars, callerVars, provVars, unitVars>>
    \/ getAllRequests /\ UNCHANGED <<mgrVars, clientVars, callerVars, provVars, unitVars>>

SpecJson == InitRepo /\ [][NextJson]_vars

\* ------------------------------------------------------------------------
\* URL and verb of the calls of a logging ApiClientService
\* (src/src/services/api-client.service.ts)
\* ------------------------------------------------------------------------

Verbs == {"get", "post", "put", "patch", "delete"}

\* this.baseUrl = this.config.getApiConfig().baseUrl
baseUrl == loadConfig(EnvWith({}), PropertiesWith({})).api.baseUrl

\* endpoint.startsWith('http')
StartsWithHttp(endpoint) ==
    Len(endpoint) >= 4 /\ SubSeq(endpoint, 1, 4) = <<"h", "t", "t", "p">>

\* application/x-www-form-urlencoded of a string of letters and blanks
RECURSIVE FormEncode(_)
FormEncode(str) ==
    IF str = <<>> THEN <<>>
    ELSE <<IF Head(str) = " " THEN "+" ELSE Head(str)>> \o FormEncode(Tail(str))

\* new URLSearchParams(params).toString()
RECURSIVE QueryString(_)
QueryString(pairs) ==
    IF pairs = <<>> THEN <<>>
    ELSE FormEncode(Head(pairs)[1]) \o <<"=">> \o FormEncode(Head(pairs)[2])
            \o (IF Tail(pairs) = <<>> THEN <<>> ELSE <<"&">> \o QueryString(Tail(pairs)))

\* buildUrl(endpoint, params)
buildUrl(endpoint, params) ==
    LET url == IF StartsWithHttp(endpoint) THEN endpoint ELSE baseUrl \o endpoint
    IN  IF params.given THEN url \o <<"?">> \o QueryString(params.pairs) ELSE url

\* mutant: patch() logs the method of put()
LoggedMethodPatchAsPut(m) ==
    CASE m = "get" -> "GET"
      [] m = "post" -> "POST"
      [] m = "put" -> "PUT"
      [] m = "patch" -> "PUT"
      [] m = "delete" -> "DELETE"

\* the method: '...' literal of the ApiRequest built by each verb method
LoggedMethod(m) ==
    CASE m = "get" -> "GET"
      [] m = "post" -> "POST"
      [] m = "put" -> "PUT"
      [] m = "patch" -> "PATCH"
      [] m = "delete" -> "DELETE"

\* the method of the APIRequestContext each verb method awaits
ContextVerb(m) ==
    CASE m = "get" -> "get"
      [] m = "post" -> "post"
      [] m = "put" -> "put"
      [] m = "patch" -> "patch"
      [] m = "delete" -> "delete"

\* the HTTP method APIRequestContext.<verb>() sends
HttpMethod(contextVerb) ==
    CASE contextVerb = "get" -> "GET"
      [] contextVerb = "post" -> "POST"
      [] contextVerb = "put" -> "PUT"
      [] contextVerb = "patch" -> "PATCH"
      [] contextVerb = "delete" -> "DELETE"

\* the ApiRequest the running verb method logs (headers and body are not followed
\* here: no headers option, no data)
WireRequest(w) ==
    [endpoint |-> w.url, method |-> LoggedMethod(w.verb),
     headers |-> [t |-> "obj", v |-> "{}"], body |-> Undefined]

\* get/post/put/patch/delete up to the first await: only get() passes params to buildUrl
UrlVerb(m, endpoint, params) ==
    /\ wire.pc = "idle"
    /\ Cardinality(api_requests) < MaxRequests
    /\ m # "get" => params = NoParams
    /\ wire' = [wire EXCEPT !.pc = "logRequest", !.verb = m, !.endpoint = endpoint,
                            !.params = params, !.url = buildUrl(endpoint, params)]
    /\ UNCHANGED <<storeVars, returned>>

\* logRequest settles: its rejection leaves the verb method; otherwise
\* this.apiContext.<verb>(url, ...) is issued. History: the arguments of the call.
UrlLogRequest ==
    /\ wire.pc = "logRequest"
    /\ ApiLogRepository_logRequest(WireRequest(wire))
    /\ wire' = IF returned'.threw
               THEN [wire EXCEPT !.pc = "idle"]
               ELSE [wire EXCEPT !.pc = "idle",
                                 !.sent = @ \cup {[verb |-> ContextVerb(wire.verb),
                                                   url |-> wire.url,
                                                   requestId |-> NextRequestId,
                                                   called |-> wire.verb,
                                                   endpoint |-> wire.endpoint,
                                                   params |-> wire.params]}]

\* endpoints and query parameters of the calls
WireEndpoints ==
    { Users, <<"h", "t", "t", "p", ":", "/", "/", "x">>, <<"h", "t", "t", "p", "b", "i", "n">> }
WireParams ==
    { NoParams, [given |-> TRUE, pairs |-> <<>>],
      [given |-> TRUE, pairs |-> << <<<<"q">>, <<"a", " ", "b">>>>, <<<<"n">>, <<"1">>>> >>] }

NextWire ==
    \/ \E m \in Verbs, endpoint \in WireEndpoints, params \in WireParams :
           /\ UrlVerb(m, endpoint, params)
           /\ UNCHANGED <<mgrVars, clientVars, callerVars, provVars, auth, conf, builder, timed>>
    \/ /\ UrlLogRequest
       /\ UNCHANGED <<mgrVars, clientVars, callerVars, provVars, auth, conf, builder, timed>>

\* the provisioned store and a client that has made no call
InitWire ==
    /\ InitProvisioned
    /\ Units(NotConstructed, NotConstructed, NotConstructed, NotConstructed, NewWire)

SpecWire == InitWire /\ [][NextWire]_vars

\* everything but the AuthService, the Config and the UserBuilder
auditVars == <<mgrVars, storeVars, clientVars, callerVars, provVars, returned>>

\* One test using its AuthService: the calls are awaited one after another.
NextAuth ==
    \/ \E username \in Usernames, password \in Passwords :
           login(username, password) /\ UNCHANGED <<auditVars, conf, builder, timed, wire>>
    \/ loginResponse /\ UNCHANGED <<auditVars, conf, builder, timed, wire>>
    \/ loginRejected /\ UNCHANGED <<auditVars, conf, builder, timed, wire>>
    \/ \E token \in IssuedTokens : setToken(token) /\ UNCHANGED <<auditVars, conf, builder, timed, wire>>
    \/ clearToken /\ UNCHANGED <<auditVars, conf, builder, timed, wire>>

\* new AuthService()
InitAuth ==
    /\ InitProgram
    /\ Units(NewAuth, NotConstructed, NotConstructed, NotConstructed, NotConstructed)

SpecAuth == InitAuth /\ [][NextAuth]_vars

\* The process starts with some environment variables set and with or without
\* entries in the properties file; the configuration is loaded once.
InitConfig ==
    /\ InitProgram
    /\ auth = NotConstructed
    /\ builder = NotConstructed
    /\ timed = NotConstructed
    /\ wire = NotConstructed
    /\ \E E \in SUBSET Options, F \in {{}, Options} :
          /\ Cardinality(E) <= MaxEnv
          /\ conf = NewConf(EnvWith(E), PropertiesWith(F))

NextConfig ==
    \/ getInstance /\ UNCHANGED <<auditVars, auth, builder, timed, wire>>
    \/ \E part \in {"config", "api", "database", "test"} :
           getConfig(part) /\ UNCHANGED <<auditVars, auth, builder, timed, wire>>

SpecConfig == InitConfig /\ [][NextConfig]_vars

\* One UserBuilder used by a test
NextBuilder ==
    \/ \E f \in RequiredFields : with(f, FieldValue(f)) /\ UNCHANGED <<auditVars, auth, conf, timed, wire>>
    \/ build /\ UNCHANGED <<auditVars, auth, conf, timed, wire>>
    \/ buildMinimal /\ UNCHANGED <<auditVars, auth, conf, timed, wire>>
    \/ reset /\ UNCHANGED <<auditVars, auth, conf, timed, wire>>

\* new UserBuilder()
InitBuilder ==
    /\ InitProgram
    /\ Units(NotConstructed, NotConstructed, NewBuilder, NotConstructed, NotConstructed)

SpecBuilder == InitBuilder /\ [][NextBuilder]_vars

\* One logging client making its calls one after another
NextTimed ==
    \/ TimedVerb /\ UNCHANGED <<auditVars, auth, conf, builder, wire>>
    \/ \E d \in Durations, ok \in BOOLEAN :
           TimedLogRequest(d, ok) /\ UNCHANGED <<auditVars, auth, conf, builder, wire>>
    \/ \E d \in Durations, responded \in BOOLEAN :
           TimedHttp(d, responded) /\ UNCHANGED <<auditVars, auth, conf, builder, wire>>
    \/ \E d \in Durations : TimedJson(d) /\ UNCHANGED <<auditVars, auth, conf, builder, wire>>
    \/ \E d \in Durations, ok \in BOOLEAN :
           TimedLogResponse(d, ok) /\ UNCHANGED <<auditVars, auth, conf, builder, wire>>
    \/ \E d \in Durations, ok \in BOOLEAN :
           TimedLogErrorResponse(d, ok) /\ UNCHANGED <<auditVars, auth, conf, builder, wire>>

\* a logging client that has made no call
InitTimed ==
    /\ InitProgram
    /\ Units(NotConstructed, NotConstructed, NotConstructed, NewTimed, NotConstructed)

SpecTimed == InitTimed /\ [][NextTimed]_vars

\* ------------------------------------------------------------------------
\* A Playwright worker (src/src/fixtures/test.fixture.ts): tests run one after
\* another; the worker-scoped dbService fixture is set up by the first test that
\* asks for it and torn down when the worker ends, the test-scoped apiClientWithDb
\* fixture is set up for every test that asks for it.
\* ------------------------------------------------------------------------

\* the fixture goes on after its awaited initialize() settled
\*   dbService: the failure is logged, use(service) follows in both cases;
\*   apiClientWithDb: the catch block builds the client without logging.
AfterInitialize(w, threw) ==
    IF w.pc = "dbServiceAwait"
    THEN [w EXCEPT !.dbService = TRUE, !.initFailed = @ \/ threw,
                   !.pc = IF w.wantClient THEN "apiClientWithDb" ELSE "body"]
    ELSE [w EXCEPT !.threw = threw, !.initFailed = @ \/ threw, !.pc = "newClient"]

\* a step of the awaited initialize(): the fixture stays suspended until it settles
InitializeStep(w, threw) ==
    IF mgr'[Owner].pc # "idle" THEN w ELSE AfterInitialize(w, threw)

\* a step of the awaited close() of the teardown
CloseStep(w) ==
    [w EXCEPT !.pc = IF mgr'[Owner].pc # "idle" THEN "teardownAwait" ELSE "ended"]

\* the runner starts the next test and sets up the fixtures it asks for
runTest(wantDb, wantClient) ==
    /\ worker.pc = "idle"
    /\ worker.tests < MaxTests
    /\ worker' = [worker EXCEPT !.tests = @ + 1, !.wantClient = wantClient, !.threw = FALSE,
                     !.pc = IF wantDb /\ ~worker.dbService THEN "dbService"
                            ELSE IF wantClient THEN "apiClientWithDb" ELSE "body"]
    /\ UNCHANGED <<mgrVars, storeVars, clientVars>>

\* dbService fixture up to its await: if (!service.isInitialized()) await service.initialize(true)
dbService(production) ==
    /\ worker.pc = "dbService"
    /\ IF isInitialized
       THEN /\ worker' = AfterInitialize([worker EXCEPT !.pc = "dbServiceAwait"], FALSE)
            /\ UNCHANGED <<mgrVars, storeVars, clientVars>>
       ELSE /\ initialize(Owner, TRUE, production)
            /\ worker' = InitializeStep([worker EXCEPT !.pc = "dbServiceAwait"], FALSE)

\* apiClientWithDb fixture up to its await:
\* if (!dbService.isInitialized()) { try { await dbService.initialize(true) } ... }
apiClientWithDb(production) ==
    /\ worker.pc = "apiClientWithDb"
    /\ IF isInitialized
       THEN /\ worker' = AfterInitialize([worker EXCEPT !.pc = "clientAwait"], FALSE)
            /\ UNCHANGED <<mgrVars, storeVars, clientVars>>
       ELSE /\ initialize(Owner, TRUE, production)
            /\ worker' = InitializeStep([worker EXCEPT !.pc = "clientAwait"], FALSE)

\* apiClientWithDb: new ApiClientService(request, false) in the catch block,
\* new ApiClientService(request, true) otherwise; then use(client)
newClient ==
    /\ worker.pc = "newClient"
    /\ ApiClientService(1, ~worker.threw)
    /\ worker' = [worker EXCEPT !.pc = "body"]

\* the test body calls the client it was handed
testCalls(s) ==
    /\ worker.pc = "body"
    /\ worker.wantClient
    /\ get(s) \/ post(s) \/ put(s) \/ patch(s) \/ delete(s)
    /\ UNCHANGED worker

\* the test ends once its calls have settled; its client instance is dropped
endTest ==
    /\ worker.pc = "body"
    /\ \A s \in Slots : call[s].pc \in {"idle", "done"}
    /\ worker' = [worker EXCEPT !.pc = "idle"]
    /\ call' = [s \in Slots |-> IdleCall]
    /\ enableDbLogging' = [s \in Slots |-> FALSE]
    /\ logRepository' = [s \in Slots |-> FALSE]
    /\ builtInitialized' = [s \in Slots |-> FALSE]
    /\ UNCHANGED <<mgrVars, storeVars, callsStarted>>

\* the worker ends: dbService, if it was set up, resumes after use(): await service.close()
teardown ==
    /\ worker.pc = "idle"
    /\ IF worker.dbService
       THEN /\ close(Owner)
            /\ worker' = CloseStep(worker)
       ELSE /\ worker' = [worker EXCEPT !.pc = "ended"]
            /\ UNCHANGED <<mgrVars, storeVars, clientVars>>

NextWorker ==
    \/ \E wantDb \in BOOLEAN, wantClient \in BOOLEAN :
           runTest(wantDb, wantClient) /\ UNCHANGED <<ret, provVars, returned, unitVars>>
    \/ \E production \in BOOLEAN : dbService(production) /\ UNCHANGED <<ret, provVars, returned, unitVars>>
    \/ \E production \in BOOLEAN :
           apiClientWithDb(production) /\ UNCHANGED <<ret, provVars, returned, unitVars>>
    \/ /\ initializeTestContainer(Owner)
       /\ worker' = InitializeStep(
                        [worker EXCEPT !.starts = IF container' # container THEN @ + 1 ELSE @],
                        TRUE)
       /\ UNCHANGED <<ret, provVars, returned, unitVars>>
    \/ /\ initializeFromConfig(Owner)
       /\ worker' = InitializeStep(worker, TRUE)
       /\ UNCHANGED <<ret, provVars, returned, unitVars>>
    \/ /\ connect(Owner)
       /\ worker' = InitializeStep(worker, TRUE)
       /\ UNCHANGED <<ret, provVars, returned, unitVars>>
    \/ \E provisioned \in BOOLEAN :
           /\ initializeDatabaseSettled(Owner, provisioned)
           /\ worker' = InitializeStep(worker, ~provisioned)
           /\ UNCHANGED <<ret, provVars, returned, unitVars>>
    \/ newClient /\ UNCHANGED <<ret, provVars, returned, unitVars>>
    \/ testCalls(1) /\ UNCHANGED <<ret, provVars, returned, unitVars>>
    \/ logRequest(1) /\ UNCHANGED auxVars
    \/ http(1) /\ UNCHANGED auxVars
    \/ logResponse(1) /\ UNCHANGED auxVars
    \/ logErrorResponse(1) /\ UNCHANGED auxVars
    \/ endTest /\ UNCHANGED <<ret, provVars, returned, unitVars>>
    \/ teardown /\ UNCHANGED <<ret, provVars, returned, unitVars>>
    \/ /\ poolEnded(Owner)
       /\ worker' = CloseStep(worker)
       /\ UNCHANGED <<ret, provVars, returned, unitVars>>
    \/ /\ containerStopped(Owner)
       /\ worker' = CloseStep([worker EXCEPT !.stops = @ + 1])
       /\ UNCHANGED <<ret, provVars, returned, unitVars>>

SpecWorker == Init /\ [][NextWorker]_vars

\* ------------------------------------------------------------------------
\* Properties of the instrumented client (specification Spec)
\* ------------------------------------------------------------------------
Done(s) == call[s].pc = "done"
RequestsOf(k) == {q \in api_requests : q.call = k}
ResponsesOf(k) == {r \in api_responses : r.call = k}
ResponsesTo(requestId) == {r \in api_responses : r.request_id = requestId}
Occurs(t, e) == \E i \in DOMAIN t : t[i] = e
Before(t, e, i) == \E j \in DOMAIN t : j < i /\ t[j] = e
NoLogFailure(c) == ~c.reqLogFailed /\ ~c.respLogFailed /\ ~c.errLogFailed

\* C1: a finished call of a logging client whose HTTP call returned a response and
\* whose log writes all succeeded has persisted exactly one request row and exactly
\* one response row, and the response row's request_id is the id logRequest returned.
C1_OneRequestOneResponse ==
    \A s \in Slots :
        (Done(s) /\ logRepository[s] /\ call[s].http.kind = "response" /\ NoLogFailure(call[s]))
        => /\ Cardinality(RequestsOf(call[s].id)) = 1
           /\ Cardinality(ResponsesOf(call[s].id)) = 1
           /\ \A q \in RequestsOf(call[s].id) : q.id = call[s].requestId
           /\ \A r \in ResponsesOf(call[s].id) : r.request_id = call[s].requestId

C1_Witness ==
    \E s \in Slots :
        /\ Done(s) /\ logRepository[s] /\ call[s].http.kind = "response"
        /\ NoLogFailure(call[s])
        /\ call[s].result = Returned(call[s].http.status)
        /\ ResponsesOf(call[s].id) # {}

\* C2 (the claim as stated): once a request id exists and the HTTP call returned a
\* response, a failed response-log write is not propagated: the call returns that
\* response.
C2_ResponseLogFailureNotPropagated ==
    \A s \in Slots :
        (Done(s) /\ call[s].requestId # 0 /\ call[s].http.kind = "response"
            /\ call[s].respLogFailed)
        => call[s].result = Returned(call[s].http.status)

\* C3: when the HTTP call raised a transport error, the call raises that same error,
\* whether the error-record write succeeded, failed or was not attempted.
C3_TransportErrorReraised ==
    \A s \in Slots :
        (Done(s) /\ call[s].http.kind = "error")
        => call[s].result = Raised(call[s].http.err)

C3_Witness ==
    \E s \in Slots, t \in Slots :
        /\ Done(s) /\ call[s].http.kind = "error" /\ call[s].requestId # 0
        /\ call[s].errLogFailed /\ call[s].result = Raised(call[s].http.err)
        /\ Done(t) /\ call[t].http.kind = "error" /\ call[t].requestId # 0
        /\ ~call[t].errLogFailed /\ call[t].result = Raised(call[t].http.err)

\* C4: when the HTTP call raised a transport error after a request id was logged and
\* the error-record write succeeded, exactly one response row exists for that request
\* id; its status_code is 500 when the error has no status of its own and its body
\* carries the error's message when the error has one.
C4_ErrorRecordPersisted ==
    \A s \in Slots :
        (Done(s) /\ call[s].http.kind = "error" /\ call[s].requestId # 0
            /\ ~call[s].errLogFailed)
        => /\ Cardinality(ResponsesTo(call[s].requestId)) = 1
           /\ \A r \in ResponsesTo(call[s].requestId) :
                /\ call[s].http.err.status = 0 => r.status_code = DefaultErrorStatus
                /\ call[s].http.err.message # ""
                    => r.body = [kind |-> "error", text |-> call[s].http.err.message]

C4_Witness ==
    \E s \in Slots :
        /\ Done(s) /\ call[s].http.kind = "error" /\ call[s].requestId # 0
        /\ ~call[s].errLogFailed
        /\ call[s].http.err.status = 0 /\ call[s].http.err.message # ""
        /\ \E r \in ResponsesTo(call[s].requestId) : r.status_code = DefaultErrorStatus

\* C5: within one call of a logging client the request-log write has completed before
\* the HTTP call is started, the HTTP call has finished before a response-log write is
\* issued, and a response-log write is issued only when the request id exists.
C5_WriteOrder ==
    \A s \in Slots :
        logRepository[s] =>
            \A i \in DOMAIN call[s].trace :
                /\ call[s].trace[i] = "httpStart" => Before(call[s].trace, "reqLogged", i)
                /\ call[s].trace[i] = "httpEnd" => Before(call[s].trace, "httpStart", i)
                /\ call[s].trace[i] = "respWrite"
                    => /\ Before(call[s].trace, "httpEnd", i)
                       /\ call[s].requestId # 0
                       /\ \E q \in RequestsOf(call[s].id) : q.id = call[s].requestId

C5_Witness ==
    \E s \in Slots :
        /\ logRepository[s]
        /\ call[s].trace = <<"reqLogged", "httpStart", "httpEnd", "respWrite">>

\* C6: when logRequest fails in a logging client, the failure reaches the caller, no
\* HTTP call is performed and no response row is written for that call.
C6_RequestLogFailurePropagates ==
    \A s \in Slots :
        (logRepository[s] /\ call[s].reqLogFailed)
        => /\ Done(s)
           /\ call[s].result = Raised(DbError)
           /\ ~Occurs(call[s].trace, "httpStart")
           /\ call[s].http.kind = "none"
           /\ ResponsesOf(call[s].id) = {}

C6_Witness ==
    \E s \in Slots :
        /\ logRepository[s] /\ call[s].reqLogFailed /\ Done(s)
        /\ isInitialized

\* C7: a client constructed with enableDbLogging = false, or constructed while the
\* connection manager was not initialized, never writes to the log store, whatever
\* the connection manager does later, and its call returns the HTTP response or
\* raises the transport error of the HTTP call.
C7_UnloggedClient ==
    \A s \in Slots :
        (~enableDbLogging[s] \/ ~builtInitialized[s])
        => /\ call[s].pc \notin {"logRequest", "logResponse", "logErrorResponse"}
           /\ ~Occurs(call[s].trace, "reqLogged")
           /\ ~Occurs(call[s].trace, "respWrite")
           /\ ~call[s].reqLogFailed
           /\ RequestsOf(call[s].id) = {}
           /\ ResponsesOf(call[s].id) = {}
           /\ Done(s) =>
                \/ call[s].http.kind = "response"
                    /\ call[s].result = Returned(call[s].http.status)
                \/ call[s].http.kind = "error"
                    /\ call[s].result = Raised(call[s].http.err)

C7_Witness ==
    \E s \in Slots :
        /\ enableDbLogging[s] /\ ~builtInitialized[s]
        /\ isInitialized /\ StoreAccepts
        /\ Done(s) /\ call[s].http.kind = "response"

OwnRequest(r, requests) == \E q \in requests : q.id = r.request_id /\ q.call = r.call

C10_AtMostOneLiveHandle ==
    /\ Cardinality(livePools) <= 1
    /\ Cardinality(liveContainers) <= 1

\* ------------------------------------------------------------------------
\* Properties of initialize() and close() called one after another
\* (specification SpecMgr)
\* ------------------------------------------------------------------------

\* C11: initialize() called while the manager is initialized returns without error,
\* and the step that makes the call leaves the pool, the container, the live objects
\* and the provisioned stores as they were and starts no provisioning.
C11_InitializeWhenInitializedIsNoOp ==
    /\ []((ret.op = "initialize" /\ ret.wasInitialized) => ret.outcome = "returned")
    /\ [][(ret'.n # ret.n /\ ret'.op = "initialize" /\ ret'.wasInitialized)
            => UNCHANGED mgrVars]_vars

\* initialize() returned at once on a manager holding a container and its pool,
\* with the store provisioned
C11_Witness ==
    /\ ret.op = "initialize" /\ ret.wasInitialized /\ ret.outcome = "returned"
    /\ pool # 0 /\ container # 0
    /\ container \in schemaReady

\* C12: close() never raises; once it has returned, isInitialized() is false and no
\* pool and no container is left; close() on a closed manager changes nothing.
C12_CloseIsSafe ==
    /\ []((ret.op = "close" /\ ret.outcome # "running")
            => /\ ret.outcome = "returned"
               /\ ~isInitialized
               /\ container = 0
               /\ livePools = {}
               /\ liveContainers = {})
    /\ [][(ret'.n # ret.n /\ ret'.op = "close" /\ pool = 0 /\ container = 0)
            => (UNCHANGED mgrVars /\ ret'.outcome = "returned")]_vars

\* close() returned on a manager that an earlier close() had already closed after
\* it ran in container mode
C12_Witness ==
    /\ ret.op = "close" /\ ~ret.wasInitialized /\ ret.outcome = "returned"
    /\ isTestContainerMode

\* C25: an initialize() that has settled has released every connection it acquired,
\* whether it returned or threw, and no connection is checked out; the step that
\* leaves the provisioning releases exactly one connection.
C25_ConnectionReleasedOnce ==
    /\ []((ret.op = "initialize" /\ ret.outcome # "running")
            => (ret.released = ret.acquired /\ checkedOut = 0))
    /\ [][(mgr[Owner].pc = "provision" /\ mgr'[Owner].pc # "provision")
            => checkedOut' = checkedOut - 1]_vars

\* initialize() threw out of the provisioning after it had acquired its connection
C25_Witness ==
    /\ ret.op = "initialize" /\ ret.outcome = "threw"
    /\ ret.acquired = 1 /\ ret.released = 1

\* C29 (the claim as stated): after an initialize() that threw, isInitialized() is
\* false and neither a pool nor a container is retained.
C29_FailedInitializeLeavesNothing ==
    (ret.op = "initialize" /\ ret.outcome = "threw")
    => /\ ~isInitialized
       /\ pool = 0 /\ container = 0
       /\ livePools = {} /\ liveContainers = {}

\* ------------------------------------------------------------------------
\* Response rows and the outcome of the HTTP call (specification Spec)
\* ------------------------------------------------------------------------

\* C28 (the claim as stated): a response row written by a call whose HTTP call
\* returned a response has the status of that response, and a row with an error body
\* is written only by a call whose HTTP call raised a transport error.
C28_RecordReflectsHttpOutcome ==
    \A s \in Slots : \A r \in api_responses :
        r.call = call[s].id
        => /\ call[s].http.kind = "response" => r.status_code = call[s].http.status
           /\ r.body.kind = "error" => call[s].http.kind = "error"

\* ------------------------------------------------------------------------
\* Order and failure policy of the provisioning (specification SpecProvision)
\* ------------------------------------------------------------------------

\* C26: a run ensures the schema, then api_requests, then api_responses: a creation
\* statement is issued only when the objects before it exist, so a table never exists
\* without the objects before it and no statement fails for a missing object; a run
\* that raised has ended at the step that failed, and within a run no step is taken
\* again or skipped.
C26_FixedOrderNoRetry ==
    /\ [](\A k \in Conns :
            /\ prov[k].pc = "create" => \A q \in Prerequisites(prov[k].step) : catalog[q] > 0
            /\ prov[k].error # "missing"
            /\ prov[k].error # "none" => prov[k].pc = "done"
            /\ prov[k].issued <= prov[k].step)
    /\ [](\A o \in DOMAIN catalog : catalog[o] > 0 => \A q \in Prerequisites(o) : catalog[q] > 0)
    /\ [][\A k \in Conns :
            IF prov'[k].runs # prov[k].runs
            THEN prov'[k].step = 1
            ELSE /\ prov'[k].step \in {prov[k].step, prov[k].step + 1}
                 /\ prov[k].pc = "done" => prov'[k] = prov[k]]_vars

\* a run lost its connection while it ensured api_requests: it ended there, with
\* the schema created and api_responses never attempted
C26_Witness ==
    \E k \in Conns :
        /\ prov[k].pc = "done" /\ prov[k].error = "connection" /\ prov[k].step = 2
        /\ catalog[1] = 1 /\ catalog[3] = 0
        /\ \A j \in Conns \ {k} : prov[j].runs = 0

\* ------------------------------------------------------------------------
\* Properties of the fixtures of one worker (specification SpecWorker)
\* ------------------------------------------------------------------------

\* C13 (the claim as stated): once an initialize() of this worker has failed, the
\* client every apiClientWithDb fixture hands to its test writes no log and none of
\* its calls fails with the error of the log store.
C13_FallbackToUnloggedClient ==
    (worker.initFailed /\ worker.pc = "body" /\ worker.wantClient)
    => /\ ~logRepository[1]
       /\ call[1].pc \notin {"logRequest", "logResponse", "logErrorResponse"}
       /\ Done(1) => call[1].result # Raised(DbError)

\* C14 (the claim as stated): the worker starts the container at most once and, when
\* the worker has ended, every container it started has been stopped, once.
C14_ContainerStoppedAtTeardown ==
    /\ worker.starts <= 1
    /\ worker.stops <= worker.starts
    /\ worker.pc = "ended" => (worker.stops = worker.starts /\ liveContainers = {})

\* ------------------------------------------------------------------------
\* Properties of the schema provisioning (specification SpecProvision)
\* ------------------------------------------------------------------------
Finished(k) == prov[k].pc = "done" /\ prov[k].error # "connection"
ExactlyOnce(o) == catalog[o] = 1

\* C15: a provisioning run started when the schema and both tables exist, and not
\* cut by a lost connection, raises no error, issues no creation statement and
\* leaves exactly one schema and one of each table.
C15_ProvisioningIdempotent ==
    \A k \in Conns :
        (Finished(k) /\ prov[k].startedProvisioned)
        => /\ prov[k].error = "none"
           /\ prov[k].issued = 0
           /\ prov[k].sawAbsent = {}
           /\ \A o \in DOMAIN catalog : ExactlyOnce(o)

\* the same connection has provisioned the store in its first run and finished a
\* second run
C15_Witness ==
    \E k \in Conns :
        /\ Finished(k) /\ prov[k].startedProvisioned /\ prov[k].runs = 2
        /\ \A j \in Conns \ {k} : prov[j].runs = 0

\* C16: when two runs both found an object absent, so that both issued its creation
\* statement, and neither is cut by a lost connection, neither run raises an error
\* and the object exists exactly once.
C16_ConcurrentProvisioningSafe ==
    \A k \in Conns, j \in Conns, o \in DOMAIN catalog :
        (k # j /\ o \in prov[k].sawAbsent /\ o \in prov[j].sawAbsent
            /\ prov[k].error # "connection" /\ prov[j].error # "connection"
            /\ (prov[k].step > o \/ prov[k].pc = "done")
            /\ (prov[j].step > o \/ prov[j].pc = "done"))
        => /\ prov[k].error = "none"
           /\ prov[j].error = "none"
           /\ ExactlyOnce(o)

\* both runs found the schema and both tables absent and both have returned
C16_Witness ==
    \A k \in Conns :
        /\ Finished(k) /\ prov[k].error = "none"
        /\ prov[k].sawAbsent = DOMAIN catalog
        /\ prov[k].issued = Len(Objects)
        /\ \A o \in DOMAIN catalog : ExactlyOnce(o)

\* ------------------------------------------------------------------------
\* Properties of the repository (specification SpecRepo)
\* ------------------------------------------------------------------------

\* C17: every step keeps every persisted request row and response row as it is, and
\* a step of a read operation changes neither table.
C17_AppendOnly ==
    [][/\ api_requests \subseteq api_requests'
       /\ api_responses \subseteq api_responses'
       /\ returned'.op \in ReadOps => UNCHANGED storeVars]_vars

\* a read returned rows while a request has two responses stored
C17_Witness ==
    /\ returned.op \in ReadOps /\ ~returned.threw /\ returned.rows # {}
    /\ \E r1 \in api_responses, r2 \in api_responses :
          r1.id # r2.id /\ r1.request_id = r2.request_id

\* C18: getFailedResponses returns only response rows with status_code >= 400 and
\* returns every stored response row with status_code >= 400.
C18_FailedResponses ==
    (returned.op = "getFailedResponses" /\ ~returned.threw)
    => /\ \A x \in returned.rows : x.status_code >= 400
       /\ \A r \in api_responses :
            r.status_code >= 400 => \E x \in returned.rows : x.id = r.id

\* the read returned the row with status 400 and left out a row with status 399
C18_Witness ==
    /\ returned.op = "getFailedResponses" /\ ~returned.threw
    /\ \E x \in returned.rows : x.status_code = 400
    /\ \E r \in api_responses : r.status_code = 399

\* ------------------------------------------------------------------------
\* Property of the endpoint search (specification SpecLike)
\* ------------------------------------------------------------------------

\* C19: for every string p, getRequestsByEndpoint(p) returns exactly the logged
\* requests whose endpoint contains p as a literal, case-sensitive substring.
C19_LiteralSubstring ==
    (returned.op = "getRequestsByEndpoint" /\ ~returned.threw)
    => returned.rows = {q \in api_requests : Contains(q.endpoint, returned.arg)}

\* ------------------------------------------------------------------------
\* Property of the JSON columns (specification SpecJson)
\* ------------------------------------------------------------------------

\* C20: the headers and the body that getAllRequests reads back for a request equal
\* the value passed to logRequest, and a column is null only when the field was
\* absent (not passed, or passed as null).
C20_JsonRoundTrip ==
    (returned.op = "getAllRequests" /\ ~returned.threw)
    => \A q \in returned.rows :
         /\ q.sent.headers # Undefined => q.headers = q.sent.headers
         /\ q.sent.body # Undefined => q.body = q.sent.body
         /\ q.headers = Null => q.sent.headers \in {Undefined, Null}
         /\ q.body = Null => q.sent.body \in {Undefined, Null}

\* ------------------------------------------------------------------------
\* Properties of the AuthService (specification SpecAuth)
\* ------------------------------------------------------------------------

\* C21: when a login has settled and its response was not 2xx, it has thrown an error
\* carrying the status and the token is the one held before the login.
C21_FailedLoginKeepsToken ==
    (auth.pc = "idle" /\ auth.outcome # "none" /\ auth.status # 0
        /\ ~(auth.status >= 200 /\ auth.status <= 299))
    => /\ auth.outcome = "threw"
       /\ auth.error = auth.status
       /\ auth.token = auth.before

\* a login was rejected with 401 while a token was held
C21_Witness ==
    /\ auth.pc = "idle" /\ auth.status = 401 /\ auth.outcome = "threw"
    /\ auth.before \in IssuedTokens

\* C22: a login called with empty-string username and password does not
\* authenticate with the configured defaults and leaves no token stored.
C22_EmptyCredentialsNotDefaulted ==
    (auth.username = "" /\ auth.password = "" /\ auth.pc = "idle" /\ auth.logins > 0
        /\ auth.outcome # "none")
    => /\ auth.data # ApiConfig
       /\ auth.outcome = "threw" \/ auth.token \in {NoToken, NoAccessToken, ""}

\* ------------------------------------------------------------------------
\* Property of the Config (specification SpecConfig)
\* ------------------------------------------------------------------------

\* C23: for every option whose environment variable and properties-file entry are
\* both set, the loaded configuration holds the environment value.
C23_EnvironmentOverridesFile ==
    conf.instance
    => \A o \in Options :
         (conf.env[EnvName(o)] # Unset /\ conf.properties[PropertyKey(o)] # Unset)
         => IF o \in NumericOptions
            THEN Loaded(conf.config, o) = parseInt(conf.env[EnvName(o)])
            ELSE Loaded(conf.config, o) = conf.env[EnvName(o)]

\* ------------------------------------------------------------------------
\* Property of the UserBuilder (specification SpecBuilder)
\* ------------------------------------------------------------------------

\* C24: no step changes a User object that a build returned earlier, and a build
\* that returns does not return an object that an earlier build returned.
C24_BuildReturnsNewObject ==
    [][/\ \A u \in builder.built : builder'.heap[u] = builder.heap[u]
       /\ (builder'.op \in {"build", "buildMinimal"} /\ ~builder'.threw)
            => builder'.result \notin builder.built]_vars

\* ------------------------------------------------------------------------
\* Property of the stored response time (specification SpecTimed)
\* ------------------------------------------------------------------------

\* C27: the response_time_ms of every stored response row is non-negative and equals
\* the time from the issue of the HTTP call to its return.
C27_ResponseTimeIsHttpTime ==
    \A r \in timed.records :
        r.response_time_ms >= 0 /\ r.response_time_ms = r.elapsed

\* ------------------------------------------------------------------------
\* Property of the logged method and endpoint (specification SpecWire)
\* ------------------------------------------------------------------------

\* C30: every HTTP call issued has its request row, whose method is the HTTP method
\* of the verb invoked on the context and whose endpoint is the URL passed to it; the
\* URL is the endpoint, prefixed with the base URL unless it starts with 'http', and
\* a query string is appended only by get() called with params; every request row
\* belongs to one HTTP call issued.
C30_RequestDescribesHttpCall ==
    /\ \A w \in wire.sent :
          /\ \E q \in api_requests :
                q.id = w.requestId /\ q.method = HttpMethod(w.verb) /\ q.endpoint = w.url
          /\ HttpMethod(w.verb) = HttpMethod(w.called)
          /\ LET prefixed == IF StartsWithHttp(w.endpoint) THEN w.endpoint
                                                          ELSE baseUrl \o w.endpoint
             IN  /\ SubSeq(w.url, 1, Len(prefixed)) = prefixed
                 /\ (w.called # "get" \/ ~w.params.given) => w.url = prefixed
                 /\ (w.called = "get" /\ w.params.given) => w.url[Len(prefixed) + 1] = "?"
    /\ \A q \in api_requests : Cardinality({w \in wire.sent : w.requestId = q.id}) = 1

\* a patch() call and a get() call with query parameters were logged and issued
C30_Witness ==
    /\ \E w \in wire.sent : w.called = "patch" /\ ~StartsWithHttp(w.endpoint)
    /\ \E w \in wire.sent : w.called = "get" /\ w.params.given /\ w.params.pairs # <<>>
====
